---- MODULE Spec2Model ----
(***************************************************************************)
(* Model of the script compiler (Pattern::parse_pattern, Template,         *)
(* parse_leading_event) and of the runtime scheduler (run_app's tick       *)
(* handler, handle_message) of scripted-mixer-gstreamer.                   *)
(*                                                                         *)
(* Text is modelled as a sequence of one-character strings, so that the    *)
(* formatting of a WindowAction into a channel message and the tokenizing  *)
(* of that message by handle_message are computed, not assumed.            *)
(***************************************************************************)
EXTENDS Integers, Sequences, FiniteSets, TLC

VARIABLES
    script,        \* index of the script file read by parse_pattern
    pc,            \* "parsing" | "parsed" | "running" | "exit0" | "exit1" | "panicked"
    cmd_iter,      \* parse_pattern: the lines not yet consumed
    pattern,       \* the Pattern under construction, then owned by the tick closure
    bus,           \* closures connected to "message::eos": <<graph, events>>
    next_graph,    \* number of graphs rendered so far by parse_launch
    windows,       \* run_app: window name -> gtk window state
    chan,          \* the crossbeam channel (tx -> rx), oldest message first
    nano_map,      \* run_app: the (name, nanos) pairs already fired
    moving_parts,  \* run_app: the active MovingParts
    position,      \* graph -> playback position reported by the engine, or None
    eos_count,     \* number of end-of-stream notifications delivered
    fire_count,    \* (name, nanos) -> number of times its action list was started
    step,          \* the last step taken
    log            \* the effects of the last step, in the order they happened

vars == << script, pc, cmd_iter, pattern, bus, next_graph, windows, chan,
           nano_map, moving_parts, position, eos_count, fire_count, step, log >>

-----------------------------------------------------------------------------
(* Text *)

SP == " "

\* str::starts_with
StartsWith(s, p) == Len(s) >= Len(p) /\ SubSeq(s, 1, Len(p)) = p

\* the indices at which a token of s starts, and the index at which the
\* token starting at i ends
TokenStarts(s) == { i \in 1..Len(s) : s[i] # SP /\ (i = 1 \/ s[i - 1] = SP) }
TokenEnd(s, i) ==
    CHOOSE j \in i..Len(s) :
       /\ \A k \in i..j : s[k] # SP
       /\ (j = Len(s) \/ s[j + 1] = SP)

\* str::split_whitespace().collect()
SplitWhitespace(s) ==
    LET starts == TokenStarts(s)
        nth(k) == CHOOSE i \in starts : Cardinality({ j \in starts : j < i }) = k - 1
    IN [k \in 1..Cardinality(starts) |-> SubSeq(s, nth(k), TokenEnd(s, nth(k)))]

RECURSIVE Join(_)
\* [&str]::join(" ")
Join(toks) ==
    IF toks = << >> THEN << >>
    ELSE IF Len(toks) = 1 THEN toks[1]
    ELSE toks[1] \o <<SP>> \o Join(Tail(toks))

\* args[n..] of a slice (n counted from 0)
From(args, n) == SubSeq(args, n + 1, Len(args))

Digits == [c \in {"0", "1", "2", "3", "4", "5", "6", "7", "8", "9"} |->
             CASE c = "0" -> 0 [] c = "1" -> 1 [] c = "2" -> 2 [] c = "3" -> 3
               [] c = "4" -> 4 [] c = "5" -> 5 [] c = "6" -> 6 [] c = "7" -> 7
               [] c = "8" -> 8 [] c = "9" -> 9]

IsDigits(s) == s # << >> /\ \A i \in 1..Len(s) : s[i] \in DOMAIN Digits

RECURSIVE DigitsValue(_)
DigitsValue(s) ==
    IF s = << >> THEN 0
    ELSE 10 * DigitsValue(SubSeq(s, 1, Len(s) - 1)) + Digits[s[Len(s)]]

None == [none |-> TRUE]
Some(v) == [some |-> v]
IsSome(o) == o # None

\* let v = val; K(v)
With(val, K(_)) == K(val)

\* str::parse::<usize>(): Some(value), or None for Err
ParseUsize(s) ==
    IF IsDigits(s) THEN Some(DigitsValue(s))
    ELSE IF Len(s) > 1 /\ s[1] = "+" /\ IsDigits(Tail(s)) THEN Some(DigitsValue(Tail(s)))
    ELSE None

\* str::parse::<i32>()
ParseI32(s) ==
    IF IsDigits(s) THEN Some(DigitsValue(s))
    ELSE IF Len(s) > 1 /\ s[1] = "+" /\ IsDigits(Tail(s)) THEN Some(DigitsValue(Tail(s)))
    ELSE IF Len(s) > 1 /\ s[1] = "-" /\ IsDigits(Tail(s)) THEN Some(0 - DigitsValue(Tail(s)))
    ELSE None

DotAt(s) == IF \E i \in 1..Len(s) : s[i] = "." 
            THEN CHOOSE i \in 1..Len(s) : s[i] = "." /\ \A j \in 1..(i - 1) : s[j] # "."
            ELSE 0

RECURSIVE Pow10(_)
Pow10(n) == IF n = 0 THEN 1 ELSE 10 * Pow10(n - 1)

NANOS_PER_SEC == 1000000000

\* s.parse::<f64>() * 1000000000.0, rounded toward zero, for the plain decimal
\* notations [+-] d+, d+.d*, .d+ with at most nine fraction digits (on these
\* the product is the exact decimal value); None for a text that is no
\* float. Exponents, "inf" and "nan" are outside the modelled inputs.
ParseUnsignedNanos(s) ==
    LET d == DotAt(s)
        ip == IF d = 0 THEN s ELSE SubSeq(s, 1, d - 1)
        fp == IF d = 0 THEN << >> ELSE SubSeq(s, d + 1, Len(s))
        okI == ip = << >> \/ IsDigits(ip)
        okF == fp = << >> \/ (IsDigits(fp) /\ Len(fp) <= 9)
    IN IF okI /\ okF /\ (ip # << >> \/ fp # << >>)
       THEN Some(DigitsValue(ip) * NANOS_PER_SEC
                 + DigitsValue(fp) * Pow10(9 - Len(fp)))
       ELSE None

\* Option::map(|v| -v)
Negated(o) == IF IsSome(o) THEN Some(0 - o.some) ELSE None

ParseSecondsToNanos(s) ==
    IF s # << >> /\ s[1] = "-" THEN Negated(ParseUnsignedNanos(Tail(s)))
    ELSE ParseUnsignedNanos(IF s # << >> /\ s[1] = "+" THEN Tail(s) ELSE s)

\* `as u64` of a float: negative values saturate to 0
AsU64(n) == IF n < 0 THEN 0 ELSE n

-----------------------------------------------------------------------------
(* Vocabulary of the script language and of the scripts below *)

s_raw == <<"r", "a", "w">>
s_war == <<"w", "a", "r">>
s_new == <<"n", "e", "w">>
s_plug == <<"p", "l", "u", "g">>
s_on == <<"o", "n">>
s_callback == <<"c", "a", "l", "l", "b", "a", "c", "k">>
s_pre == <<"p", "r", "e">>
s_progress == <<"p", "r", "o", "g", "r", "e", "s", "s">>
s_end == <<"e", "n", "d">>
s_terminate == <<"t", "e", "r", "m", "i", "n", "a", "t", "e">>
s_act == <<"a", "c", "t">>
s_wrap == <<"w", "r", "a", "p">>
s_parw == <<"p", "a", "r", "w">>
s_prop == <<"p", "r", "o", "p">>
s_play == <<"p", "l", "a", "y">>
s_seek == <<"s", "e", "e", "k">>
s_window == <<"w", "i", "n", "d", "o", "w">>
s_show == <<"s", "h", "o", "w">>
s_move == <<"m", "o", "v", "e">>
s_start == <<"s", "t", "a", "r", "t">>
s_pause == <<"p", "a", "u", "s", "e">>
s_ready == <<"r", "e", "a", "d", "y">>
s_null == <<"n", "u", "l", "l">>
s_stop == <<"s", "t", "o", "p">>
s_mcos == <<"m", "c", "o", "s">>
s_lin == <<"l", "i", "n">>
s_int == <<"i", "n", "t">>
s_float == <<"f", "l", "o", "a", "t">>
s_string == <<"s", "t", "r", "i", "n", "g">>
s_gtktag == <<"g", "t", "k", "t", "a", "g">>
s_x == <<"x">>
s_y == <<"y">>
s_width == <<"w", "i", "d", "t", "h">>
s_height == <<"h", "e", "i", "g", "h", "t">>
s_location == <<"l", "o", "c", "a", "t", "i", "o", "n">>
s_sink == <<"s", "i", "n", "k">>
s_src == <<"s", "r", "c">>
s_mp3input == <<"m", "p", "3", "i", "n", "p", "u", "t">>
s_mp4input == <<"m", "p", "4", "i", "n", "p", "u", "t">>
s_aoutput == <<"a", "o", "u", "t", "p", "u", "t">>
s_xoutput == <<"x", "o", "u", "t", "p", "u", "t">>
s_P == <<"P">>
s_Q == <<"Q">>
s_winA == <<"w", "i", "n", "A">>
s_f == <<"f">>
s_tpl == <<"t", "p", "l">>
s_bogus == <<"b", "o", "g", "u", "s">>
s_n0 == <<"0">>
s_n1 == <<"1">>
s_n2 == <<"2">>
s_n3 == <<"3">>
s_n4 == <<"4">>
s_n5 == <<"5">>
s_n10 == <<"1", "0">>
s_n100 == <<"1", "0", "0">>
s_n2_0 == <<"2", ".", "0">>
s_n1_5 == <<"1", ".", "5">>
s_d0 == <<"$", "0">>
s_d1 == <<"$", "1">>
s_d2 == <<"$", "2">>
s_d3 == <<"$", "3">>
s_d4 == <<"$", "4">>
s_audio_out == <<"a", "u", "d", "i", "o", "_", "o", "u", "t">>
s_audio_in == <<"a", "u", "d", "i", "o", "_", "i", "n">>
s_video_out == <<"v", "i", "d", "e", "o", "_", "o", "u", "t">>
s_video_in == <<"v", "i", "d", "e", "o", "_", "i", "n">>
s_comment == <<"/", "/", "c">>
s_GstOrientation == <<"G", "s", "t", "O", "r", "i", "e", "n", "t", "a", "t", "i", "o", "n">>
s_bang == <<"!">>
s_fakesrc == <<"f", "a", "k", "e", "s", "r", "c">>
s_name_src == <<"n", "a", "m", "e", "=", "s", "r", "c">>
s_name_sink == <<"n", "a", "m", "e", "=", "s", "i", "n", "k">>
s_name_eq == <<"n", "a", "m", "e", "=">>
s_dollar == <<"$">>
s_slashes == <<"/", "/">>
s_empty == << >>

MP3INPUT_PATTERN ==
    << <<"r", "a", "w", " ", "m", "p", "3", "i", "n", "p", "u", "t", " ", "1", " ", "f", "i", "l", "e", "s", "r", "c", " ", "n", "a", "m", "e", "=", "s", "r", "c", " ", "!", " ", "d", "e", "c", "o", "d", "e", "b", "i", "n", " ", "!", " ", "a", "u", "d", "i", "o", "c", "o", "n", "v", "e", "r", "t", " ", "!", " ", "a", "u", "d", "i", "o", "r", "e", "s", "a", "m", "p", "l", "e", " ", "!", " ", "p", "r", "o", "x", "y", "s", "i", "n", "k", " ", "n", "a", "m", "e", "=", "a", "u", "d", "i", "o", "_", "o", "u", "t">>,
       <<"s", "r", "c", " ", "l", "o", "c", "a", "t", "i", "o", "n", " ", "s", "t", "r", "i", "n", "g", " ", "$", "1">>,
       <<"w", "a", "r">> >>
MP4INPUT_PATTERN ==
    << <<"r", "a", "w", " ", "m", "p", "4", "i", "n", "p", "u", "t", " ", "1", " ", "f", "i", "l", "e", "s", "r", "c", " ", "n", "a", "m", "e", "=", "s", "r", "c", " ", "!", " ", "d", "e", "c", "o", "d", "e", "b", "i", "n", " ", "n", "a", "m", "e", "=", "d", "e", "m", "u", "x", " ", "d", "e", "m", "u", "x", ".", " ", "!", " ", "v", "i", "d", "e", "o", "c", "o", "n", "v", "e", "r", "t", " ", "!", " ", "p", "r", "o", "x", "y", "s", "i", "n", "k", " ", "n", "a", "m", "e", "=", "v", "i", "d", "e", "o", "_", "o", "u", "t", " ", "d", "e", "m", "u", "x", ".", " ", "!", " ", "a", "u", "d", "i", "o", "c", "o", "n", "v", "e", "r", "t", " ", "!", " ", "a", "u", "d", "i", "o", "r", "e", "s", "a", "m", "p", "l", "e", " ", "!", " ", "p", "r", "o", "x", "y", "s", "i", "n", "k", " ", "n", "a", "m", "e", "=", "a", "u", "d", "i", "o", "_", "o", "u", "t">>,
       <<"s", "r", "c", " ", "l", "o", "c", "a", "t", "i", "o", "n", " ", "s", "t", "r", "i", "n", "g", " ", "$", "1">>,
       <<"w", "a", "r">> >>
ALSAOUTPUT_PATTERN ==
    << <<"r", "a", "w", " ", "a", "o", "u", "t", "p", "u", "t", " ", "0", " ", "p", "r", "o", "x", "y", "s", "r", "c", " ", "n", "a", "m", "e", "=", "a", "u", "d", "i", "o", "_", "i", "n", " ", "!", " ", "a", "l", "s", "a", "s", "i", "n", "k", " ", "n", "a", "m", "e", "=", "s", "i", "n", "k">>,
       <<"w", "a", "r">> >>
XOUTPUT_PATTERN ==
    << <<"r", "a", "w", " ", "x", "o", "u", "t", "p", "u", "t", " ", "4", " ", "p", "r", "o", "x", "y", "s", "r", "c", " ", "n", "a", "m", "e", "=", "v", "i", "d", "e", "o", "_", "i", "n", " ", "!", " ", "x", "v", "i", "m", "a", "g", "e", "s", "i", "n", "k", " ", "n", "a", "m", "e", "=", "s", "i", "n", "k">>,
       <<"r", "a", "w", " ", "g", "t", "k", "t", "a", "g", " ", "s", "t", "r", "i", "n", "g", " ", "w", "i", "n", "d", "o", "w">>,
       <<"r", "a", "w", " ", "x", " ", "i", "n", "t", " ", "$", "1">>,
       <<"r", "a", "w", " ", "y", " ", "i", "n", "t", " ", "$", "2">>,
       <<"r", "a", "w", " ", "w", "i", "d", "t", "h", " ", "i", "n", "t", " ", "$", "3">>,
       <<"r", "a", "w", " ", "h", "e", "i", "g", "h", "t", " ", "i", "n", "t", " ", "$", "4">>,
       <<"w", "a", "r">> >>

-----------------------------------------------------------------------------
(* Results *)

Ok(v) == [res |-> "Ok", val |-> v]
\* ParseError: the message, as the chain of its annotations, outermost first
Err(e) == [res |-> "Err", err |-> e]
\* a panic!(), a failed unwrap() or an index out of bounds
Panic == [res |-> "Panic"]
IsOk(r) == r.res = "Ok"

\* ParseError::annotate, catch_bail_annotate!
Annotate(r, s) == IF r.res = "Err" THEN Err(<<s>> \o r.err) ELSE r

-----------------------------------------------------------------------------
(* The graph engine (gstreamer), as far as the compiler depends on it *)

\* the names of the elements of a rendered description: its name=<x> tokens
ElementNames(desc) ==
    With(SplitWhitespace(desc), LAMBDA toks :
      { From(toks[i], Len(s_name_eq)) :
          i \in { j \in 1..Len(toks) : StartsWith(toks[j], s_name_eq) } })

\* gstreamer::parse_launch fails on an empty description
ParseLaunchOk(desc) == SplitWhitespace(desc) # << >>

\* parse_launch yields a gstreamer::Pipeline when the description links
\* several elements, and the bare element when it holds a single one
IsPipeline(desc) ==
    With(SplitWhitespace(desc), LAMBDA toks : \E i \in 1..Len(toks) : toks[i] = s_bang)

\* Pipeline::by_name
ByName(graph, elem) == elem \in graph.elems

-----------------------------------------------------------------------------
(* script/action.rs: set_property *)

set_property(prop, type_, value) ==
    CASE type_ = s_int ->
           IF IsSome(ParseI32(value)) THEN Ok(<<prop, type_, value>>)
           ELSE Err(<<"Unable to parse as">>)
      [] type_ = s_float ->
           IF IsSome(ParseSecondsToNanos(value)) THEN Ok(<<prop, type_, value>>)
           ELSE Err(<<"Unable to parse as">>)
      [] type_ = s_string -> Ok(<<prop, type_, value>>)
      [] type_ = s_GstOrientation ->
           IF value \in {s_n0, s_n1, s_n2, s_n3} THEN Ok(<<prop, type_, value>>)
           ELSE Err(<<"Unknown GstOrientation index">>)
      [] OTHER -> Err(<<"Unknown parameter type">>)

-----------------------------------------------------------------------------
(* script/mod.rs: Template *)

EmptyMap == [k \in {} |-> << >>]

MapInsert(m, k, v) == [x \in DOMAIN m \cup {k} |-> IF x = k THEN v ELSE m[x]]

\* h.get_mut(k).unwrap().push(v), or h.insert(k, vec![v]) for a new key
MapPush(h, k, v) ==
    IF k \in DOMAIN h THEN [h EXCEPT ![k] = Append(@, v)] ELSE MapInsert(h, k, <<v>>)

RECURSIVE ParseBody(_, _)
\* the loop of Template::parse_command over the body lines: the settings
\* map and the lines left after the closing line
ParseBody(h, lines) ==
    IF lines = << >>
    THEN Err(<<"Iterator ended before constructing custom pipeline">>)
    ELSE IF StartsWith(Head(lines), s_war)
    THEN Ok([settings |-> h, rest |-> Tail(lines)])
    ELSE With(SplitWhitespace(Head(lines)), LAMBDA vals :
           IF Len(vals) # 4
           THEN Err(<<"Incorrect number of arguments in custom pipeline instruction">>)
           ELSE ParseBody(MapPush(h, vals[1], <<vals[2], vals[3], vals[4]>>), Tail(lines)))

\* Template::parse_command(args, str_iter)
parse_command(args, str_iter) ==
    IF Len(args) < 2 THEN Panic
    ELSE With(ParseUsize(args[2]), LAMBDA arg_count :
           IF ~IsSome(arg_count) THEN Err(<<"could not parse parameter count">>)
           ELSE With(ParseBody(EmptyMap, str_iter), LAMBDA b :
                  IF ~IsOk(b) THEN b
                  ELSE Ok([name |-> args[1],
                           template |-> [pipeline |-> Join(From(args, 2)),
                                         arg_count |-> arg_count.some,
                                         settings |-> b.val.settings],
                           rest |-> b.val.rest])))

\* the bound check and the indexing of a "$K" reference: args[index - 1]
ArgAt(index, args) ==
    IF index > Len(args)
    THEN Err(<<"Argument index greater than number of arguments">>)
    ELSE IF index - 1 < 0 THEN Panic
    ELSE Ok(args[index])

\* the value of one instruction: a "$K" reference or the literal
ResolveValue(val, args) ==
    IF StartsWith(val, s_dollar)
    THEN With(ParseUsize(Tail(val)), LAMBDA index :
           IF ~IsSome(index) THEN Err(<<"Could not parse argument index">>)
           ELSE ArgAt(index.some, args))
    ELSE Ok(val)

\* the ParsedSetting exported by a "raw" instruction
ParseSetting(type_, actual_val) ==
    CASE type_ = s_int ->
           With(ParseI32(actual_val), LAMBDA i :
             IF IsSome(i) THEN Ok([tag |-> "Int", v |-> i.some])
             ELSE Err(<<"Failed to parse setting as int">>))
      [] type_ = s_float ->
           IF IsSome(ParseSecondsToNanos(actual_val))
           THEN Ok([tag |-> "Float", v |-> actual_val])
           ELSE Err(<<"Failed to parse setting as float">>)
      [] type_ = s_string -> Ok([tag |-> "String", v |-> actual_val])
      [] OTHER -> Err(<<"Unknown type">>)

\* the body of the inner loop of Template::generate for one instruction
\* <<prop, type_, val>> of the key `key`, whose value resolved to actual_val;
\* acc = [external, applied]
ApplyInstruction(key, prop, type_, actual_val, elems, acc) ==
    IF key = s_raw
    THEN With(ParseSetting(type_, actual_val), LAMBDA ext :
           IF ~IsOk(ext) THEN ext
           ELSE Ok([acc EXCEPT !.external = MapInsert(@, prop, ext.val)]))
    ELSE IF key \notin elems THEN Err(<<"Could not obtain element">>)
    ELSE With(set_property(prop, type_, actual_val), LAMBDA st :
           IF ~IsOk(st) THEN Annotate(st, "set_property")
           ELSE Ok([acc EXCEPT !.applied = Append(@, <<key>> \o st.val)]))

RECURSIVE GenerateTriples(_, _, _, _, _)
\* the inner loop of Template::generate over the instructions of one key
GenerateTriples(key, value, args, elems, acc) ==
    IF value = << >> THEN Ok(acc)
    ELSE With(ResolveValue(value[1][3], args), LAMBDA actual_val :
           IF ~IsOk(actual_val) THEN actual_val
           ELSE With(ApplyInstruction(key, value[1][1], value[1][2], actual_val.val,
                                      elems, acc), LAMBDA r :
                  IF ~IsOk(r) THEN r
                  ELSE GenerateTriples(key, Tail(value), args, elems, r.val)))

RECURSIVE GenerateKeys(_, _, _, _, _)
\* the outer loop of Template::generate, visiting the keys of the settings
\* map in the order `order` (a HashMap iterates in an arbitrary order)
GenerateKeys(settings, order, args, elems, acc) ==
    IF order = << >> THEN Ok(acc)
    ELSE With(GenerateTriples(order[1], settings[order[1]], args, elems, acc), LAMBDA r :
           IF ~IsOk(r) THEN r
           ELSE GenerateKeys(settings, Tail(order), args, elems, r.val))

\* (surplus arguments refused, missing ones let through)
ArgCountAtMost(self, args) == Len(args) <= self.arg_count

\* the check of the argument count that opens Template::generate
ArgCountOk(self, args) == Len(args) = self.arg_count

\* Template::generate(name, args): the graph handle, the exported settings
\* and the properties applied to elements of the graph. `id` is the
\* identity of the graph that parse_launch renders.
generate(self, name, args, id, order) ==
    IF ~ArgCountOk(self, args) THEN Err(<<"Incorrect number of arguments">>)
    ELSE IF ~ParseLaunchOk(self.pipeline) THEN Err(<<"Could not render pipeline">>)
    ELSE IF ~IsPipeline(self.pipeline) THEN Err(<<"Could not cast pipeline to pipeline">>)
    ELSE With(ElementNames(self.pipeline), LAMBDA elems :
           With(GenerateKeys(self.settings, order, args, elems,
                             [external |-> EmptyMap, applied |-> << >>]), LAMBDA r :
             IF ~IsOk(r) THEN r
             ELSE Ok([pipeline |-> [id |-> id, name |-> name, elems |-> elems],
                      external |-> r.val.external,
                      applied |-> r.val.applied])))

\* the orders in which a HashMap with key set S may be iterated
Orders(S) == { o \in [1..Cardinality(S) -> S] : \A i, j \in 1..Cardinality(S) : o[i] = o[j] => i = j }

-----------------------------------------------------------------------------
(* script/action.rs: the actions and their parsing *)

WindowAction(window, action, settings) ==
    [kind |-> "window", window |-> window, action |-> action, settings |-> settings]
PlayAction(pipeline, action) ==
    [kind |-> "play", pipeline |-> pipeline, action |-> action]
SeekAction(pipeline, rate, time) ==
    [kind |-> "seek", pipeline |-> pipeline, rate |-> rate, time |-> time]
SetPropAction(pipeline, element, prop, type_, setting) ==
    [kind |-> "prop", pipeline |-> pipeline, element |-> element, prop |-> prop,
     type_ |-> type_, setting |-> setting]

\* parse_single_event(pattern, chan, args)
parse_single_event(pat, args) ==
    IF Len(args) < 1 THEN Panic
    ELSE IF args[1] # s_act THEN Err(<<"Unknown event header">>)
    ELSE IF Len(args) < 2 THEN Panic
    ELSE IF args[2] \notin DOMAIN pat.pipes THEN Err(<<"Unknown pipeline">>)
    ELSE LET elem == pat.pipes[args[2]].pipeline
         IN IF Len(args) < 3 THEN Panic
            ELSE CASE args[3] = s_prop ->
                        IF Len(args) < 4 THEN Panic
                        ELSE IF ~ByName(elem, args[4]) THEN Err(<<"Unknown element">>)
                        ELSE IF Len(args) < 6 THEN Panic
                        ELSE Ok(SetPropAction(elem, args[4], args[5], args[6],
                                              Join(From(args, 6))))
                   [] args[3] = s_play ->
                        IF Len(args) < 4 THEN Panic
                        ELSE Ok(PlayAction(elem, args[4]))
                   [] args[3] = s_seek ->
                        IF Len(args) < 4 THEN Panic
                        ELSE IF ~IsSome(ParseSecondsToNanos(args[4]))
                        THEN Err(<<"Could not parse as float">>)
                        ELSE IF Len(args) < 5 THEN Panic
                        ELSE IF ~IsSome(ParseSecondsToNanos(args[5]))
                        THEN Err(<<"Could not parse as float">>)
                        ELSE Ok(SeekAction(elem, args[5], args[4]))
                   [] args[3] = s_window ->
                        IF Len(args) < 4 THEN Panic
                        ELSE Ok(WindowAction(args[2], args[4], From(args, 4)))
                   [] OTHER -> Err(<<"Unkown event type">>)

\* the body of the "wrap" loop for a line that is not the closing one
RECURSIVE WrapLoop(_, _, _)
WrapLine(pat, actions, args, rest) ==
    With(parse_single_event(pat, args), LAMBDA t :
      IF ~IsOk(t) THEN Annotate(t, "wrap")
      ELSE WrapLoop(pat, Append(actions, t.val), rest))

\* the loop of the "wrap" arm of parse_leading_event
WrapLoop(pat, actions, cmd) ==
    IF cmd = << >> THEN Panic
    ELSE With(SplitWhitespace(Head(cmd)), LAMBDA args :
           IF Len(args) < 1 THEN Panic
           ELSE IF args[1] = s_parw
           THEN Ok([actions |-> actions, rest |-> Tail(cmd)])
           ELSE WrapLine(pat, actions, args, Tail(cmd)))

\* the "act" arm of parse_leading_event
LeadingAct(pat, args, cmd) ==
    With(parse_single_event(pat, args), LAMBDA t :
      IF ~IsOk(t) THEN Annotate(t, "act")
      ELSE Ok([actions |-> <<t.val>>, rest |-> cmd]))

\* parse_leading_event(pattern, chan, args, cmd_iter): the action list and
\* the lines left in cmd_iter
parse_leading_event(pat, args, cmd) ==
    IF Len(args) < 1 THEN Panic
    ELSE CASE args[1] = s_terminate ->
                Ok([actions |-> <<WindowAction(s_empty, s_terminate, << >>)>>,
                    rest |-> cmd])
           [] args[1] = s_act -> LeadingAct(pat, args, cmd)
           [] args[1] = s_wrap -> WrapLoop(pat, << >>, cmd)
           [] OTHER -> Err(<<"Unknown condition">>)

-----------------------------------------------------------------------------
(* script/mod.rs: Pattern *)

\* one premade template text, parsed as Pattern::default does
Premade(pre) == parse_command(From(SplitWhitespace(pre[1]), 1), Tail(pre)).val

\* pipelines.insert(name, pipeline) for each premade text
RECURSIVE InsertPremade(_, _)
InsertPremade(pipelines, premade) ==
    IF premade = << >> THEN pipelines
    ELSE With(Premade(Head(premade)), LAMBDA r :
           InsertPremade(MapInsert(pipelines, r.name, r.template), Tail(premade)))

\* Pattern::default()
DefaultPattern ==
    [blocks |-> InsertPremade(EmptyMap, <<MP3INPUT_PATTERN, MP4INPUT_PATTERN,
                                         XOUTPUT_PATTERN, ALSAOUTPUT_PATTERN>>),
     pipes |-> EmptyMap,
     time_events |-> EmptyMap,
     pre_events |-> << >>]

RECURSIVE ClearComments(_)
\* the "clear comments" loop of parse_pattern
ClearComments(lines) ==
    IF lines = << >> THEN << >>
    ELSE IF ~StartsWith(Head(lines), s_slashes) /\ Len(Head(lines)) # 0
         THEN <<Head(lines)>> \o ClearComments(Tail(lines))
         ELSE ClearComments(Tail(lines))

\* what one iteration of the command loop of parse_pattern yields
Step(pat, rest, busv, ng, effects) ==
    Ok([pattern |-> pat, rest |-> rest, bus |-> busv, next_graph |-> ng, effects |-> effects])

\* the "raw" arm
parse_raw(pat, args, rest, busv, ng) ==
    With(parse_command(From(args, 1), rest), LAMBDA r :
      IF ~IsOk(r) THEN Annotate(r, "parse_command")
      ELSE Step([pat EXCEPT !.blocks = MapInsert(@, r.val.name, r.val.template)],
                r.val.rest, busv, ng, << >>))

\* pattern.pipes.insert(name, (elem, settings)) with the result g of generate
InsertPipe(pat, name, g) ==
    [pat EXCEPT !.pipes = MapInsert(@, name, [pipeline |-> g.pipeline, tags |-> g.external])]

\* the "new" arm; `order` is the iteration order of the template's settings
parse_new(pat, args, rest, busv, ng, order) ==
    IF Len(args) < 3 THEN Panic
    ELSE IF args[2] \notin DOMAIN pat.blocks THEN Panic
    ELSE With(generate(pat.blocks[args[2]], args[3], From(args, 3), ng + 1, order), LAMBDA g :
           IF ~IsOk(g) THEN Annotate(g, "block.generate")
           ELSE Step(InsertPipe(pat, args[3], g.val), rest, busv, ng + 1,
                     [i \in 1..Len(g.val.applied) |->
                        <<"set_property", ng + 1>> \o g.val.applied[i]]))

\* the "plug" arm
parse_plug(pat, args, rest, busv, ng) ==
    IF Len(args) < 3 THEN Panic
    ELSE IF args[3] \notin DOMAIN pat.pipes THEN Err(<<"No pipe found">>)
    ELSE IF Len(args) < 5 THEN Panic
    ELSE IF args[5] \notin DOMAIN pat.pipes THEN Err(<<"No pipe found">>)
    ELSE IF ~ByName(pat.pipes[args[3]].pipeline, args[2]) THEN Err(<<"No element found">>)
    ELSE IF ~ByName(pat.pipes[args[5]].pipeline, args[4]) THEN Err(<<"No element found">>)
    ELSE Step(pat, rest, busv, ng,
              << <<"proxysink", pat.pipes[args[5]].pipeline.id, args[4],
                   pat.pipes[args[3]].pipeline.id, args[2]>> >>)

\* the "callback" arm of "on"
on_callback(pat, args, rest, busv, ng) ==
    IF Len(args) < 3 THEN Panic
    ELSE IF args[3] \notin DOMAIN pat.pipes THEN Err(<<"No element found">>)
    ELSE IF Len(args) < 4 THEN Panic
    ELSE IF args[4] # s_end THEN Err(<<"Unknown callback">>)
    ELSE With(parse_leading_event(pat, From(args, 4), rest), LAMBDA ev :
           IF ~IsOk(ev) THEN Annotate(ev, "callback end")
           ELSE Step(pat, ev.val.rest,
                     Append(busv, [pipe |-> pat.pipes[args[3]].pipeline,
                                   events |-> ev.val.actions]),
                     ng, << >>))

\* the "pre" arm of "on"
on_pre(pat, args, rest, busv, ng) ==
    With(parse_leading_event(pat, From(args, 2), rest), LAMBDA ev :
      IF ~IsOk(ev) THEN Annotate(ev, "pre, parse")
      ELSE Step([pat EXCEPT !.pre_events = @ \o ev.val.actions],
                ev.val.rest, busv, ng, << >>))

\* (the later list put before the earlier one)
MergeTimeEventsFront(time_events, k, events) ==
    IF k \in DOMAIN time_events
    THEN [time_events EXCEPT ![k] = events \o @]
    ELSE MapInsert(time_events, k, events)

\* time_events.get_mut(k): extend the list of the key, or insert it
MergeTimeEvents(time_events, k, events) ==
    IF k \in DOMAIN time_events
    THEN [time_events EXCEPT ![k] = @ \o events]
    ELSE MapInsert(time_events, k, events)

\* (the pipe of the time event not looked up)
on_progress_unchecked(pat, args, rest, busv, ng) ==
    IF Len(args) < 4 THEN Panic
    ELSE With(ParseSecondsToNanos(args[4]), LAMBDA time :
           IF ~IsSome(time) THEN Err(<<"Failed to parse time">>)
           ELSE With(parse_leading_event(pat, From(args, 4), rest), LAMBDA ev :
                  IF ~IsOk(ev) THEN Annotate(ev, "progress, parse")
                  ELSE Step([pat EXCEPT !.time_events =
                               MergeTimeEvents(@, <<args[3], AsU64(time.some)>>,
                                               ev.val.actions)],
                            ev.val.rest, busv, ng, << >>)))

\* the "progress" arm of "on"; nanotime = (time * 1000000000.0) as u64
on_progress(pat, args, rest, busv, ng) ==
    IF Len(args) < 3 THEN Panic
    ELSE IF args[3] \notin DOMAIN pat.pipes THEN Err(<<"No element found">>)
    ELSE IF Len(args) < 4 THEN Panic
    ELSE With(ParseSecondsToNanos(args[4]), LAMBDA time :
           IF ~IsSome(time) THEN Err(<<"Failed to parse time">>)
           ELSE With(parse_leading_event(pat, From(args, 4), rest), LAMBDA ev :
                  IF ~IsOk(ev) THEN Annotate(ev, "progress, parse")
                  ELSE Step([pat EXCEPT !.time_events =
                               MergeTimeEvents(@, <<args[3], AsU64(time.some)>>,
                                               ev.val.actions)],
                            ev.val.rest, busv, ng, << >>)))

\* the "on" arm
parse_on(pat, args, rest, busv, ng) ==
    IF Len(args) < 2 THEN Panic
    ELSE CASE args[2] = s_callback -> on_callback(pat, args, rest, busv, ng)
           [] args[2] = s_pre -> on_pre(pat, args, rest, busv, ng)
           [] args[2] = s_progress -> on_progress(pat, args, rest, busv, ng)
           [] OTHER -> Err(<<"Unknown event type">>)

\* the command loop's match on args[0]
parse_args(pat, args, rest, busv, ng, order) ==
    IF Len(args) < 1 THEN Panic
    ELSE CASE args[1] = s_raw -> parse_raw(pat, args, rest, busv, ng)
           [] args[1] = s_new -> parse_new(pat, args, rest, busv, ng, order)
           [] args[1] = s_plug -> parse_plug(pat, args, rest, busv, ng)
           [] args[1] = s_on -> parse_on(pat, args, rest, busv, ng)
           [] OTHER -> Err(<<"Unknown command">>)

\* one iteration of the command loop of Pattern::parse_pattern, on the
\* line `line` with `rest` left in cmd_iter
parse_line(pat, line, rest, busv, ng, order) ==
    parse_args(pat, SplitWhitespace(line), rest, busv, ng, order)

\* the template that a "new" line names, None for any other line
NamedTemplate(pat, args) ==
    IF Len(args) >= 3 /\ args[1] = s_new /\ args[2] \in DOMAIN pat.blocks
    THEN Some(pat.blocks[args[2]]) ELSE None

\* the iteration orders of the settings map that the "new" line `line` uses
\* (a single empty order for every other line)
LineOrders(pat, line) ==
    With(NamedTemplate(pat, SplitWhitespace(line)), LAMBDA t :
      IF IsSome(t) THEN Orders(DOMAIN t.some.settings) ELSE { << >> })

-----------------------------------------------------------------------------
(* script/action.rs: EventAction::exec *)

\* What a running piece of code has done so far: st.status is "run" while it
\* goes on, "panic" after a panic and "exit" after std::process::exit(0).

RECURSIVE ConcatSettings(_)
ConcatSettings(settings) ==
    IF settings = << >> THEN << >>
    ELSE <<SP>> \o Head(settings) \o ConcatSettings(Tail(settings))

\* (the fields put together without the separator)
WindowMessageJoined(a) ==
    IF a.settings = << >> THEN a.window \o a.action
    ELSE a.window \o a.action \o Tail(ConcatSettings(a.settings))

\* the line that WindowAction::exec sends
WindowMessage(a) == a.window \o <<SP>> \o a.action \o ConcatSettings(a.settings)

\* (the message put at the head of the channel)
SendInFront(st, s) == [st EXCEPT !.chan = <<s>> \o @, !.log = Append(@, <<"send", s>>)]

\* WindowAction::exec
\* self.chan.send(s)
Send(st, s) == [st EXCEPT !.chan = Append(@, s), !.log = Append(@, <<"send", s>>)]

\* (the window shown by the action itself, besides the message it sends)
ExecWindowActionDirect(a, st) ==
    Send(IF a.window \in DOMAIN st.windows
         THEN [st EXCEPT !.windows[a.window].shown = TRUE] ELSE st,
         WindowMessage(a))

ExecWindowAction(a, st) == Send(st, WindowMessage(a))

\* the gstreamer::State of a state word, None for an unknown word
PlayState(action) ==
    CASE action = s_start -> Some("Playing")
      [] action = s_pause -> Some("Paused")
      [] action = s_ready -> Some("Ready")
      [] action = s_null -> Some("Null")
      [] OTHER -> None

\* PlayAction::exec
ExecPlayAction(a, st) ==
    With(PlayState(a.action), LAMBDA action :
      IF IsSome(action)
      THEN [st EXCEPT !.log = Append(@, <<"set_state", a.pipeline.id, action.some>>)]
      ELSE [st EXCEPT !.status = "panic"])

\* SeekAction::exec; (time * 1000000.0) as u64
ExecSeekAction(a, st) ==
    [st EXCEPT !.log = Append(@, <<"seek", a.pipeline.id, a.rate,
                                  AsU64(ParseSecondsToNanos(a.time).some) \div 1000>>)]

\* SetPropAction::exec
ExecSetPropAction(a, st) ==
    IF IsOk(set_property(a.prop, a.type_, a.setting))
    THEN [st EXCEPT !.log = Append(@, <<"set_property", a.pipeline.id, a.element,
                                       a.prop, a.type_, a.setting>>)]
    ELSE [st EXCEPT !.status = "panic"]

\* event.exec()
Exec(a, st) ==
    CASE a.kind = "window" -> ExecWindowAction(a, st)
      [] a.kind = "play" -> ExecPlayAction(a, st)
      [] a.kind = "seek" -> ExecSeekAction(a, st)
      [] a.kind = "prop" -> ExecSetPropAction(a, st)

RECURSIVE ExecAll(_, _)
\* for event in events { event.exec(); }
ExecAll(events, st) ==
    IF events = << >> \/ st.status # "run" THEN st
    ELSE ExecAll(Tail(events), Exec(Head(events), st))

-----------------------------------------------------------------------------
(* gtk_manage/mod.rs: run_app before the tick handler is registered *)

IsWindowTag(tags) ==
    s_gtktag \in DOMAIN tags /\ tags[s_gtktag] = [tag |-> "String", v |-> s_window]

\* the value of an integer window parameter, 0 when absent or not an Int
WindowParam(tags, t) ==
    IF t \in DOMAIN tags /\ tags[t].tag = "Int" THEN tags[t].v ELSE 0

\* the names of the pipes that get a window
NeedsWindow(pat) == { n \in DOMAIN pat.pipes : IsWindowTag(pat.pipes[n].tags) }

\* window::create_gtk_window(x, y, width, height) followed by window.hide()
CreateWindow(x, y, width, height) ==
    [x |-> x, y |-> y, width |-> width, height |-> height, shown |-> FALSE]

\* the window table built by run_app
BuildWindows(pat) ==
    [n \in NeedsWindow(pat) |->
       LET tags == pat.pipes[n].tags
       IN CreateWindow(WindowParam(tags, s_x), WindowParam(tags, s_y),
                       WindowParam(tags, s_width), WindowParam(tags, s_height))]

\* pipeline.by_name("sink").unwrap() succeeds for every pipe with a window
SinksFound(pat) == \A n \in NeedsWindow(pat) : ByName(pat.pipes[n].pipeline, s_sink)

-----------------------------------------------------------------------------
(* gtk_manage/mod.rs: handle_message *)

MovingPart(pipeline, window, start, end, start_x, end_x, start_y, end_y, path_x, path_y) ==
    [pipeline |-> pipeline, window |-> window, start |-> start, end |-> end,
     start_x |-> start_x, end_x |-> end_x, start_y |-> start_y, end_y |-> end_y,
     path_x |-> path_x, path_y |-> path_y]

\* the fields of a move command all parse (each unwrap() succeeds)
MoveFieldsOk(args) ==
    /\ Len(args) >= 9
    /\ IsSome(ParseSecondsToNanos(args[2]))
    /\ IsSome(ParseI32(args[3]))
    /\ IsSome(ParseI32(args[4]))
    /\ IsSome(ParseSecondsToNanos(args[5]))
    /\ IsSome(ParseI32(args[6]))
    /\ IsSome(ParseI32(args[7]))

\* (the end time read from the field of the start time)
ParsePartEndAtStart(pipeline, window, args) ==
    MovingPart(pipeline, window,
               ParseSecondsToNanos(args[2]).some, ParseSecondsToNanos(args[2]).some,
               ParseI32(args[3]).some, ParseI32(args[6]).some,
               ParseI32(args[4]).some, ParseI32(args[7]).some,
               args[8], args[9])

\* the MovingPart built from the fields of a move command
ParsePart(pipeline, window, args) ==
    MovingPart(pipeline, window,
               ParseSecondsToNanos(args[2]).some, ParseSecondsToNanos(args[5]).some,
               ParseI32(args[3]).some, ParseI32(args[6]).some,
               ParseI32(args[4]).some, ParseI32(args[7]).some,
               args[8], args[9])

\* parts.push(part)
PushPart(st, part) ==
    [st EXCEPT !.moving_parts = Append(@, part), !.log = Append(@, <<"push", part>>)]

\* the "move" arm; args are the tokens after the verb
HandleMove(pat, window, args, st) ==
    IF Len(args) < 1 THEN [st EXCEPT !.status = "panic"]
    ELSE IF args[1] \notin DOMAIN pat.pipes
    THEN [st EXCEPT !.log = Append(@, <<"error", "Pipeline not found">>)]
    ELSE IF ~MoveFieldsOk(args) THEN [st EXCEPT !.status = "panic"]
    ELSE PushPart(st, ParsePart(pat.pipes[args[1]].pipeline, window, args))

\* (an unknown window taken as fatal)
HandleShowFatal(window, st) ==
    IF window \notin DOMAIN st.windows
    THEN [st EXCEPT !.status = "panic"]
    ELSE [st EXCEPT !.windows[window].shown = TRUE,
                    !.log = Append(@, <<"show_all", window>>)]

\* the "show" arm
HandleShow(window, st) ==
    IF window \notin DOMAIN st.windows
    THEN [st EXCEPT !.log = Append(@, <<"error", "Unknown window">>)]
    ELSE [st EXCEPT !.windows[window].shown = TRUE,
                    !.log = Append(@, <<"show_all", window>>)]

\* (the command compared without its leading space)
TerminateNoSpace == s_terminate

\* the text that handle_message compares the message with first
TERMINATE == <<SP>> \o s_terminate

\* the match on the verb of a tokenized message
Dispatch(pat, args, st) ==
    IF Len(args) < 2 THEN [st EXCEPT !.status = "panic"]
    ELSE CASE args[2] = s_show -> HandleShow(args[1], st)
           [] args[2] = s_move -> HandleMove(pat, args[1], From(args, 2), st)
           [] OTHER -> [st EXCEPT !.log = Append(@, <<"error", "Unknown action">>)]

\* (the list of the pre-events run twice for one "pre")
handle_message_twice(pat, msg, st) ==
    IF msg = TERMINATE THEN [st EXCEPT !.status = "exit"]
    ELSE IF msg = s_pre THEN ExecAll(pat.pre_events, ExecAll(pat.pre_events, st))
    ELSE Dispatch(pat, SplitWhitespace(msg), st)

\* handle_message(pattern, windows, msg, parts), with its result handled as
\* the drain loop of the tick handler does: an Err is printed, Ok(true) goes on
handle_message(pat, msg, st) ==
    IF msg = TERMINATE THEN [st EXCEPT !.status = "exit"]
    ELSE IF msg = s_pre THEN ExecAll(pat.pre_events, st)
    ELSE Dispatch(pat, SplitWhitespace(msg), st)

-----------------------------------------------------------------------------
(* gtk_manage/mod.rs: the tick handler *)

\* recv.try_recv() yielding msg
Received(st, msg) == [st EXCEPT !.chan = Tail(@), !.log = Append(@, <<"recv", msg>>)]

RECURSIVE Drain(_, _)
\* while let Ok(msg) = recv.try_recv() { ... handle_message ... }
Drain(pat, st) ==
    IF st.chan = << >> \/ st.status # "run" THEN st
    ELSE Drain(pat, handle_message(pat, Head(st.chan), Received(st, Head(st.chan))))

\* nano_map.insert((name, nanos))
MarkFired(st, k) ==
    [st EXCEPT !.nano_map = @ \cup {k}, !.fire_count[k] = @ + 1,
               !.log = Append(@, <<"fire", k>>)]

\* (the check of the fired set left out)
AlreadyFiredNever(st, k) == FALSE

\* nano_map.contains(&(name, nanos))
AlreadyFired(st, k) == k \in st.nano_map

\* (a missing report taken as a crossing)
CrossedOrUnknown(d, nanos) == ~IsSome(d) \/ d.some > nanos

\* (the threshold compared with >=)
CrossedOrAt(d, nanos) == IsSome(d) /\ d.some >= nanos

\* current_nanos > nanos, for the position report d
Crossed(d, nanos) == IsSome(d) /\ d.some > nanos

\* one iteration of the loop over pattern.time_events, on the entry k
FireOne(pat, pos, k, st) ==
    IF AlreadyFired(st, k) THEN st
    ELSE IF k[1] \notin DOMAIN pat.pipes THEN [st EXCEPT !.status = "panic"]
    ELSE IF Crossed(pos[pat.pipes[k[1]].pipeline.id], k[2])
    THEN ExecAll(pat.time_events[k], MarkFired(st, k))
    ELSE st

RECURSIVE FireTimeEvents(_, _, _, _)
\* for ((name, nanos), events) in &pattern.time_events, visited in `order`
FireTimeEvents(pat, pos, order, st) ==
    IF order = << >> \/ st.status # "run" THEN st
    ELSE FireTimeEvents(pat, pos, Tail(order), FireOne(pat, pos, order[1], st))

Trunc(a, b) == IF a >= 0 THEN a \div b ELSE 0 - ((0 - a) \div b)

\* 1.0 - cos(to_radians(time_frac * 90.0)) in millionths, rounded toward
\* zero, for time_frac = num / den in {0, 1/4, 1/2, 3/4, 1}; the f64 value
\* at time_frac = 1 is 0.9999999999999999
OneMinusCosPpm(num, den) ==
    CASE num = 0 -> 0
      [] num = den -> 999999
      [] den % 2 = 0 /\ num = den \div 2 -> 292893
      [] den % 4 = 0 /\ num = den \div 4 -> 76120
      [] den % 4 = 0 /\ num = 3 * (den \div 4) -> 617316

\* (every other curve taken as a straight line in time)
AxisOffsetLinear(path, diff, num, den) ==
    IF path = s_mcos
    THEN (IF den = 0 THEN 0 ELSE Trunc(diff * OneMinusCosPpm(num, den), 1000000))
    ELSE (IF den = 0 THEN 0 ELSE Trunc(diff * num, den))

\* the offset of one axis: (match path { "mcos" => diff * (1 - cos ..),
\* _ => diff }) as i32, with time_frac = num / den. The f64 product is
\* reproduced exactly by the millionths for |diff| <= 1000; 0/0 is NaN,
\* which `as i32` turns into 0.
AxisOffset(path, diff, num, den) ==
    IF path = s_mcos
    THEN (IF den = 0 THEN 0 ELSE Trunc(diff * OneMinusCosPpm(num, den), 1000000))
    ELSE diff

\* (a window moved once in a tick keeps that position for the tick)
MoveWindowFirstWins(st, i, window, x, y) ==
    IF \E j \in 1..Len(st.log) : st.log[j][1] = "move" /\ st.log[j][2] = window
    THEN [st EXCEPT !.log = Append(@, <<"move", window, x, y, i>>)]
    ELSE [st EXCEPT !.windows[window].x = x, !.windows[window].y = y,
                    !.log = Append(@, <<"move", window, x, y, i>>)]

\* wc.move_(x, y), issued for the part at index i of moving_parts
MoveWindow(st, i, window, x, y) ==
    [st EXCEPT !.windows[window].x = x, !.windows[window].y = y,
               !.log = Append(@, <<"move", window, x, y, i>>)]

\* the comparison that retires a part: time > part.end
PastEnd(time, part) == time > part.end

\* remove_parts.push(i)
MarkRemove(st, i) == [st EXCEPT !.remove_parts = Append(@, i)]

\* the window position of a part inside its interval at time `time`
PartPosition(part, time) ==
    << part.start_x + AxisOffset(part.path_x, part.end_x - part.start_x,
                                 time - part.start, part.end - part.start),
       part.start_y + AxisOffset(part.path_y, part.end_y - part.start_y,
                                 time - part.start, part.end - part.start) >>

\* (a part before its start placed at its start coordinates)
MovePartClamped(part, time, i, st) ==
    IF part.window \notin DOMAIN st.windows THEN [st EXCEPT !.status = "panic"]
    ELSE IF time < part.start THEN MoveWindow(st, i, part.window, part.start_x, part.start_y)
    ELSE IF PastEnd(time, part)
    THEN MarkRemove(MoveWindow(st, i, part.window, part.end_x, part.end_y), i)
    ELSE With(PartPosition(part, time), LAMBDA xy :
           MoveWindow(st, i, part.window, xy[1], xy[2]))

\* the body of the loop over moving_parts for a part whose pipe reports `time`
MovePart(part, time, i, st) ==
    IF part.window \notin DOMAIN st.windows THEN [st EXCEPT !.status = "panic"]
    ELSE IF time < part.start THEN st
    ELSE IF PastEnd(time, part)
    THEN MarkRemove(MoveWindow(st, i, part.window, part.end_x, part.end_y), i)
    ELSE With(PartPosition(part, time), LAMBDA xy :
           MoveWindow(st, i, part.window, xy[1], xy[2]))

\* (a pipe without a position taken as being at 0)
MoveOneFromZero(pos, i, st) ==
    MovePart(st.moving_parts[i],
             IF IsSome(pos[st.moving_parts[i].pipeline.id])
             THEN pos[st.moving_parts[i].pipeline.id].some ELSE 0, i, st)

\* one iteration of the loop over moving_parts, on the part at index i
\* (from 1); st.remove_parts collects the indices to remove
MoveOne(pos, i, st) ==
    IF ~IsSome(pos[st.moving_parts[i].pipeline.id]) THEN st
    ELSE MovePart(st.moving_parts[i], pos[st.moving_parts[i].pipeline.id].some, i, st)

RECURSIVE MoveParts(_, _, _)
MoveParts(pos, i, st) ==
    IF i > Len(st.moving_parts) \/ st.status # "run" THEN st
    ELSE MoveParts(pos, i + 1, MoveOne(pos, i, st))

\* Vec::remove(i), i counted from 0
VecRemove(v, i) == SubSeq(v, 1, i) \o SubSeq(v, i + 2, Len(v))

RECURSIVE RemoveParts(_, _, _)
\* (the indices used as they were recorded, without the offset)
RemovePartsNoOffset(parts, remove_parts, offset) ==
    IF remove_parts = << >> THEN parts
    ELSE RemoveParts(VecRemove(parts, Head(remove_parts) - 1),
                     Tail(remove_parts), 0)

\* for i in remove_parts { moving_parts.remove(i - offset); offset += 1 }
RemoveParts(parts, remove_parts, offset) ==
    IF remove_parts = << >> THEN parts
    ELSE RemoveParts(VecRemove(parts, (Head(remove_parts) - 1) - offset),
                     Tail(remove_parts), offset + 1)

\* the removal loop that follows the loop over moving_parts
Retire(m) ==
    IF m.status # "run" THEN m
    ELSE [m EXCEPT !.moving_parts = RemoveParts(@, m.remove_parts, 0)]

\* the animation part of the tick handler
Animate(pos, st) == Retire(MoveParts(pos, 1, [st EXCEPT !.remove_parts = << >>]))

\* the time-event part of the tick handler, unless the drain ended the run
FireStep(pat, pos, order, d) ==
    IF d.status = "run" THEN FireTimeEvents(pat, pos, order, d) ELSE d

\* the animation part, unless the run ended before
AnimateStep(pos, f) == IF f.status = "run" THEN Animate(pos, f) ELSE f

\* (the time events fired before the channel is drained)
TickBodyFireFirst(pat, pos, order, st) ==
    AnimateStep(pos, With(FireTimeEvents(pat, pos, order, st), LAMBDA f :
                            IF f.status = "run" THEN Drain(pat, f) ELSE f))

\* the closure given to timeout_add_local: drain, fire, animate
TickBody(pat, pos, order, st) ==
    AnimateStep(pos, FireStep(pat, pos, order, Drain(pat, st)))

-----------------------------------------------------------------------------
(* The script files. A file is given as its lines (data.split("\n")); a    *)
(* line is the text Join(tokens).                                          *)

NewP == Join(<<s_new, s_mp3input, s_P, s_f>>)
NewQ == Join(<<s_new, s_aoutput, s_Q>>)
NewWinA == Join(<<s_new, s_xoutput, s_winA, s_n1, s_n2, s_n3, s_n4>>)
CustomHead == Join(<<s_raw, s_tpl, s_n1, s_fakesrc, s_name_src, s_bang, s_fakesrc, s_name_sink>>)
PausePAt2 == Join(<<s_on, s_progress, s_P, s_n2_0, s_act, s_P, s_play, s_pause>>)
MoveWinA8 == <<s_act, s_winA, s_window, s_move,
               s_n0, s_n0, s_n0, s_n2, s_n100, s_n100, s_mcos, s_mcos>>
MoveWinA9 == <<s_act, s_winA, s_window, s_move, s_winA,
               s_n0, s_n0, s_n0, s_n2, s_n100, s_n100, s_mcos, s_mcos>>

Scripts ==
  << \* 1: two pipes plugged together and the pause trigger at 2.0 s
     << s_comment, NewP, NewQ,
        Join(<<s_plug, s_audio_out, s_P, s_audio_in, s_Q>>),
        PausePAt2,
        Join(<<s_on, s_progress, s_Q, s_n1, s_act, s_Q, s_play, s_ready>>) >>,
     \* 2: the move command with eight fields after the verb
     << NewWinA, Join(<<s_on, s_pre>> \o MoveWinA8),
        Join(<<s_on, s_pre, s_act, s_winA, s_window, s_show>>) >>,
     \* 3: the move command with the pipe and eight more fields
     << NewWinA, s_empty, Join(<<s_on, s_pre>> \o MoveWinA9) >>,
     \* 4: two animations of one window, following two pipes
     << NewWinA, NewP,
        Join(<<s_on, s_pre, s_wrap>>),
        Join(<<s_act, s_winA, s_window, s_move, s_P,
               s_n1, s_n5, s_n5, s_n2, s_n100, s_n10, s_mcos, s_lin>>),
        Join(<<s_act, s_winA, s_window, s_move, s_winA,
               s_n0, s_n0, s_n0, s_n1, s_n10, s_n100, s_lin, s_mcos>>),
        s_parw >>,
     \* 5: terminate on end of stream, with other producers
     << NewWinA, NewP,
        Join(<<s_on, s_callback, s_P, s_end, s_terminate>>),
        Join(<<s_on, s_callback, s_winA, s_end, s_act, s_winA, s_window, s_show>>),
        Join(<<s_on, s_progress, s_P, s_n1, s_act, s_P, s_play, s_pause>>) >>,
     \* 6: a move of a pipe that has no window
     << NewP, Join(<<s_on, s_pre, s_act, s_P, s_window, s_move, s_P,
                     s_n0, s_n0, s_n0, s_n2, s_n1, s_n1, s_mcos, s_mcos>>) >>,
     \* 7: two lists under one key, the first with the state word stop
     << NewP, Join(<<s_on, s_progress, s_P, s_n2, s_act, s_P, s_play, s_stop>>),
        PausePAt2 >>,
     \* 8, 9: too many and too few arguments
     << NewP, Join(<<s_new, s_aoutput, s_Q, s_f>>) >>,
     << NewQ, Join(<<s_new, s_mp3input, s_P>>) >>,
     \* 10, 11, 12: a custom template referring to $0, $2 and $1
     << CustomHead, Join(<<s_src, s_location, s_string, s_d0>>), s_war,
        Join(<<s_new, s_tpl, s_P, s_f>>) >>,
     << CustomHead, Join(<<s_src, s_location, s_string, s_d2>>), s_war,
        Join(<<s_new, s_tpl, s_P, s_f>>) >>,
     << CustomHead, Join(<<s_raw, s_x, s_int, s_d1>>), s_war,
        Join(<<s_new, s_tpl, s_P, s_n5>>),
        Join(<<s_on, s_callback, s_P, s_end, s_act, s_P, s_seek, s_n1_5, s_n1>>) >>,
     \* 13, 14: a wrap block without and with its closing line
     << NewP, Join(<<s_on, s_pre, s_wrap>>), Join(<<s_act, s_P, s_play, s_start>>) >>,
     << NewP, Join(<<s_on, s_pre, s_wrap>>), s_parw,
        Join(<<s_on, s_callback, s_P, s_end, s_wrap>>),
        Join(<<s_act, s_P, s_play, s_start>>),
        Join(<<s_act, s_P, s_prop, s_src, s_location, s_string, s_f>>),
        s_parw >>,
     \* 15: a trigger on a pipe that was never created
     << NewQ, PausePAt2 >>,
     \* 16: an unknown command
     << NewQ, Join(<<s_bogus, s_P>>) >>,
     \* 17: an instance name used twice
     << NewP, Join(<<s_on, s_pre, s_act, s_P, s_play, s_start>>), NewP, PausePAt2 >>,
     \* 18: window commands that fail between commands that succeed, and a
     \* window command issued by a time event
     << NewWinA, NewP,
        Join(<<s_on, s_pre, s_wrap>>),
        Join(<<s_act, s_winA, s_window, s_bogus>>),
        Join(<<s_act, s_P, s_window, s_show>>),
        Join(MoveWinA8),
        Join(<<s_act, s_winA, s_window, s_show>>),
        Join(MoveWinA9),
        s_parw,
        Join(<<s_on, s_progress, s_winA, s_n1, s_act, s_winA, s_window, s_show>>) >>,
     \* 19..22: an action, a plug, a callback and a wrapped action on a pipe
     \* that was never created
     << NewQ, Join(<<s_on, s_pre, s_act, s_P, s_play, s_start>>) >>,
     << NewQ, Join(<<s_plug, s_audio_out, s_P, s_audio_in, s_Q>>) >>,
     << NewQ, Join(<<s_on, s_callback, s_P, s_end, s_terminate>>) >>,
     << NewQ, Join(<<s_on, s_pre, s_wrap>>),
        Join(<<s_act, s_P, s_play, s_start>>), s_parw >>,
     \* 23: three lists under one key
     << NewP, Join(<<s_on, s_progress, s_P, s_n2, s_act, s_P, s_play, s_ready>>),
        PausePAt2,
        Join(<<s_on, s_progress, s_P, s_n2_0, s_wrap>>),
        Join(<<s_act, s_P, s_play, s_start>>),
        Join(<<s_act, s_P, s_seek, s_n1_5, s_n1>>),
        s_parw >>,
     \* 24, 25: the state words start and stop; null and an unknown one
     << NewP, Join(<<s_on, s_pre, s_wrap>>),
        Join(<<s_act, s_P, s_play, s_start>>),
        Join(<<s_act, s_P, s_play, s_stop>>),
        s_parw >>,
     << NewP, Join(<<s_on, s_progress, s_P, s_n1, s_wrap>>),
        Join(<<s_act, s_P, s_play, s_null>>),
        Join(<<s_act, s_P, s_play, s_bogus>>),
        s_parw >>,
     \* 26: a time event whose pipe was never created and whose action names
     \* no pipe
     << NewQ, Join(<<s_on, s_progress, s_P, s_n1, s_terminate>>) >>,
     \* 27: an unknown command behind a pipe with a window and a pre-event
     << NewWinA, Join(<<s_on, s_pre, s_act, s_winA, s_window, s_show>>),
        Join(<<s_bogus, s_P>>) >>,
     \* 28: two callback lists on one pipe and one on another
     << NewWinA, NewP,
        Join(<<s_on, s_callback, s_P, s_end, s_wrap>>),
        Join(<<s_act, s_P, s_play, s_ready>>),
        Join(<<s_act, s_winA, s_window, s_show>>),
        s_parw,
        Join(<<s_on, s_callback, s_winA, s_end, s_act, s_winA, s_play, s_pause>>),
        Join(<<s_on, s_callback, s_P, s_end, s_act, s_P, s_seek, s_n1_5, s_n1>>) >>,
     \* 29, 30, 31: a move command that lacks its last field, one whose start
     \* time is no number, one whose end coordinate is no number; each with a
     \* command behind it
     << NewWinA, Join(<<s_on, s_pre, s_act, s_winA, s_window, s_move, s_winA,
                        s_n0, s_n0, s_n0, s_n2, s_n100, s_n100, s_mcos>>),
        Join(<<s_on, s_pre, s_act, s_winA, s_window, s_show>>) >>,
     << NewWinA, Join(<<s_on, s_pre, s_act, s_winA, s_window, s_move, s_winA,
                        s_bogus, s_n0, s_n0, s_n2, s_n100, s_n100, s_mcos, s_mcos>>),
        Join(<<s_on, s_pre, s_act, s_winA, s_window, s_show>>) >>,
     << NewWinA, Join(<<s_on, s_pre, s_act, s_winA, s_window, s_move, s_winA,
                        s_n0, s_n0, s_n0, s_n2, s_n100, s_lin, s_mcos, s_mcos>>),
        Join(<<s_on, s_pre, s_act, s_winA, s_window, s_show>>) >>,
     \* 32: an animation with two curves other than mcos
     << NewWinA, Join(<<s_on, s_pre, s_act, s_winA, s_window, s_move, s_winA,
                        s_n0, s_n5, s_n5, s_n2, s_n100, s_n10, s_bogus, s_lin>>) >>
  >>

\* the script paths; the last one names a file that cannot be read
ScriptIds == 1..(Len(Scripts) + 1)

\* fs::read_to_string(path)
ReadToString(id) == IF id \in DOMAIN Scripts THEN Some(Scripts[id]) ELSE None

-----------------------------------------------------------------------------
(* The state machine *)

\* bound on the number of end-of-stream notifications the engine delivers
MaxEos == 2

\* the positions the engine reports, in nanoseconds
Positions ==
    { 0, NANOS_PER_SEC, NANOS_PER_SEC + NANOS_PER_SEC \div 2, 2 * NANOS_PER_SEC,
      2 * NANOS_PER_SEC + 1 }
PositionReports == { None } \cup { Some(v) : v \in Positions }

Init ==
    /\ script \in ScriptIds
    /\ pc = "start"
    /\ cmd_iter = << >>
    /\ pattern = DefaultPattern
    /\ bus = << >>
    /\ next_graph = 0
    /\ windows = EmptyMap
    /\ chan = << >>
    /\ nano_map = {}
    /\ moving_parts = << >>
    /\ position = << >>
    /\ eos_count = 0
    /\ fire_count = EmptyMap
    /\ step = "init"
    /\ log = << >>

\* the state a piece of running code starts from
Running ==
    [chan |-> chan, windows |-> windows, moving_parts |-> moving_parts,
     nano_map |-> nano_map, fire_count |-> fire_count, remove_parts |-> << >>,
     log |-> << >>, status |-> "run"]

\* pc after a piece of code that ran while the process was at `at`
PcAfter(st, at) ==
    CASE st.status = "run" -> at
      [] st.status = "panic" -> "panicked"
      [] st.status = "exit" -> "exit0"

\* parse_pattern up to the command loop: read the file, drop the comments
ReadPattern ==
    /\ pc = "start"
    /\ LET data == ReadToString(script)
       IN IF IsSome(data)
          THEN /\ cmd_iter' = ClearComments(data.some)
               /\ pc' = "parsing"
               /\ log' = << >>
          ELSE /\ cmd_iter' = cmd_iter
               /\ pc' = "exit1"
               /\ log' = << <<"error", <<"Could not read file">> >> >>
    /\ step' = "read"
    /\ UNCHANGED << script, pattern, bus, next_graph, windows, chan, nano_map,
                    moving_parts, position, eos_count, fire_count >>

\* (a line that fails is reported and skipped)
ParseDoneLenient(r) ==
    CASE r.res = "Ok" ->
           /\ pattern' = r.val.pattern
           /\ cmd_iter' = r.val.rest
           /\ bus' = r.val.bus
           /\ next_graph' = r.val.next_graph
           /\ position' = [g \in 1..r.val.next_graph |->
                             IF g \in DOMAIN position THEN position[g] ELSE None]
           /\ log' = r.val.effects
           /\ pc' = pc
      [] r.res = "Err" ->
           /\ pc' = pc
           /\ cmd_iter' = Tail(cmd_iter)
           /\ log' = << <<"error", r.err>> >>
           /\ UNCHANGED << pattern, bus, next_graph, position >>
      [] r.res = "Panic" ->
           /\ pc' = "panicked"
           /\ log' = << >>
           /\ UNCHANGED << pattern, cmd_iter, bus, next_graph, position >>

\* the outcome r of one iteration of the command loop
ParseDone(r) ==
    CASE r.res = "Ok" ->
           /\ pattern' = r.val.pattern
           /\ cmd_iter' = r.val.rest
           /\ bus' = r.val.bus
           /\ next_graph' = r.val.next_graph
           /\ position' = [g \in 1..r.val.next_graph |->
                             IF g \in DOMAIN position THEN position[g] ELSE None]
           /\ log' = r.val.effects
           /\ pc' = pc
      [] r.res = "Err" ->
           /\ pc' = "exit1"
           /\ log' = << <<"error", r.err>> >>
           /\ UNCHANGED << pattern, cmd_iter, bus, next_graph, position >>
      [] r.res = "Panic" ->
           /\ pc' = "panicked"
           /\ log' = << >>
           /\ UNCHANGED << pattern, cmd_iter, bus, next_graph, position >>

\* one iteration of the command loop of parse_pattern; on Err run_app
\* prints the error and returns 1
ParseCommand ==
    /\ pc = "parsing"
    /\ cmd_iter # << >>
    /\ \E order \in LineOrders(pattern, Head(cmd_iter)) :
         ParseDone(parse_line(pattern, Head(cmd_iter), Tail(cmd_iter), bus, next_graph, order))
    /\ step' = "parse"
    /\ UNCHANGED << script, windows, chan, nano_map, moving_parts, eos_count, fire_count >>

\* the state of the process after a piece of code that ended in st
Commit(st) ==
    /\ chan' = st.chan
    /\ windows' = st.windows
    /\ moving_parts' = st.moving_parts
    /\ nano_map' = st.nano_map
    /\ fire_count' = st.fire_count
    /\ log' = st.log
    /\ pc' = PcAfter(st, "running")

\* run_app after a successful parse_pattern: the windows, the pre-events,
\* the tick handler's state
Setup ==
    /\ pc = "parsing"
    /\ cmd_iter = << >>
    /\ IF ~SinksFound(pattern)
       THEN /\ pc' = "panicked"
            /\ log' = << >>
            /\ UNCHANGED << windows, chan, fire_count, moving_parts, nano_map >>
       ELSE Commit(ExecAll(pattern.pre_events,
                           [Running EXCEPT !.windows = BuildWindows(pattern),
                                           !.fire_count = [k \in DOMAIN pattern.time_events |-> 0]]))
    /\ step' = "setup"
    /\ UNCHANGED << script, cmd_iter, pattern, bus, next_graph, position, eos_count >>

\* the tick handler; `order` is the order in which time_events is iterated
Tick(order) ==
    /\ pc = "running"
    /\ Commit(TickBody(pattern, position, order, Running))
    /\ step' = "tick"
    /\ UNCHANGED << script, cmd_iter, pattern, bus, next_graph, position, eos_count >>

RECURSIVE RunWatches(_, _, _)
\* (the closures of every graph run, whichever graph ended)
RunWatchesAll(watches, g, st) ==
    IF watches = << >> \/ st.status # "run" THEN st
    ELSE RunWatches(Tail(watches), g, ExecAll(Head(watches).events, st))

\* the closures connected to "message::eos" on the bus of graph g, in the
\* order they were connected
RunWatches(watches, g, st) ==
    IF watches = << >> \/ st.status # "run" THEN st
    ELSE RunWatches(Tail(watches), g,
                    IF Head(watches).pipe.id = g
                    THEN ExecAll(Head(watches).events, st) ELSE st)

\* the engine reports end of stream on graph g
Eos(g) ==
    /\ pc = "running"
    /\ eos_count < MaxEos
    /\ \E i \in 1..Len(bus) : bus[i].pipe.id = g
    /\ Commit(RunWatches(bus, g, [Running EXCEPT !.log = << <<"eos", g>> >>]))
    /\ eos_count' = eos_count + 1
    /\ step' = "eos"
    /\ UNCHANGED << script, cmd_iter, pattern, bus, next_graph, position >>

\* the engine's playback position of graph g changes (playback, a seek, a
\* state change)
PositionChange(g, v) ==
    /\ pc = "running"
    /\ position[g] # v
    /\ position' = [position EXCEPT ![g] = v]
    /\ step' = "position"
    /\ log' = << >>
    /\ UNCHANGED << script, pc, cmd_iter, pattern, bus, next_graph, windows, chan,
                    nano_map, moving_parts, eos_count, fire_count >>

Next ==
    \/ ReadPattern
    \/ ParseCommand
    \/ Setup
    \/ \E order \in Orders(DOMAIN pattern.time_events) : Tick(order)
    \/ \E g \in 1..next_graph : Eos(g)
    \/ \E g \in 1..next_graph, v \in PositionReports : PositionChange(g, v)

Spec == Init /\ [][Next]_vars

\* bound on the messages and parts pending when a message is put on the
\* channel from outside the compiled actions
MaxPending == 2

\* the messages that handle_message is given besides those that the compiled
\* actions send
Replayed == { s_pre }

\* a holder of the sending end of the channel puts msg on it
Enqueue(msg) ==
    /\ pc = "running"
    /\ Len(chan) + Len(moving_parts) < MaxPending
    /\ chan' = Append(chan, msg)
    /\ step' = "enqueue"
    /\ log' = << >>
    /\ UNCHANGED << script, pc, cmd_iter, pattern, bus, next_graph, windows, nano_map,
                    moving_parts, position, eos_count, fire_count >>

NextReplay ==
    \/ Next
    \/ \E msg \in Replayed : Enqueue(msg)

\* the program with handle_message given the messages of Replayed as well
SpecReplay == Init /\ [][NextReplay]_vars

-----------------------------------------------------------------------------
(* Properties. The effects of a step are read from log', the state the     *)
(* step started from from the unprimed variables.                          *)

\* the effects of the last step that carry the tag t
Tagged(l, t) == { i \in 1..Len(l) : l[i][1] = t }

\* the report of the position of the graph that the pipe table holds for name
ReportFor(name) == position[pattern.pipes[name].pipeline.id]

\* the firings of the time event k among the effects l
Firings(l, k) == { i \in Tagged(l, "fire") : l[i][2] = k }

\* C1: every (pipe, threshold) entry of time_events has its action list
\* started at most once over all ticks, however often the position is seen
\* above the threshold, and a pair in the fired set is never removed from it.
C1_FiresAtMostOnce ==
    [][ /\ nano_map \subseteq nano_map'
        /\ \A k \in DOMAIN fire_count' :
             /\ fire_count'[k] <= 1
             /\ (k \in nano_map') <=> (fire_count'[k] = 1)
             /\ Cardinality(Firings(log', k)) <= 1
             /\ (k \in nano_map => Firings(log', k) = {}) ]_vars

\* a tick that saw the position above the threshold of an entry fired on an
\* earlier tick, and did not fire it again
C1_Witness ==
    /\ step = "tick"
    /\ pc = "running"
    /\ \E k \in nano_map :
         /\ IsSome(ReportFor(k[1]))
         /\ ReportFor(k[1]).some > k[2]
         /\ Firings(log, k) = {}

\* the key and the action of the line "on progress P 2.0 act P play pause"
PauseKey == <<s_P, 2000000000>>
PauseTrigger ==
    /\ pc \in {"running", "exit0", "panicked"}
    /\ s_P \in DOMAIN pattern.pipes
    /\ PauseKey \in DOMAIN pattern.time_events
    /\ pattern.time_events[PauseKey] =
         << [kind |-> "play", pipeline |-> pattern.pipes[s_P].pipeline, action |-> s_pause] >>

\* C2: with the trigger "on progress P 2.0 act P play pause" as the list of
\* its key, the pause of P is issued on the first tick that reaches the time
\* events with P's position reported above 2_000_000_000, only then, once,
\* and the firing issues nothing else.
C2_PauseOnce ==
    [][ PauseTrigger =>
          /\ fire_count'[PauseKey] <= 1
          /\ \A i \in Firings(log', PauseKey) :
               /\ step' = "tick"
               /\ PauseKey \notin nano_map
               /\ IsSome(ReportFor(s_P))
               /\ ReportFor(s_P).some > 2000000000
               /\ i < Len(log')
               /\ log'[i + 1] = <<"set_state", pattern.pipes[s_P].pipeline.id, "Paused">>
               /\ (i + 2 <= Len(log') => log'[i + 2][1] \in {"fire", "move"})
          /\ ( /\ step' = "tick"
               /\ pc' = "running"
               /\ PauseKey \notin nano_map
               /\ IsSome(ReportFor(s_P))
               /\ ReportFor(s_P).some > 2000000000 )
             => Cardinality(Firings(log', PauseKey)) = 1 ]_vars

\* the tick that paused P
C2_Witness ==
    /\ PauseTrigger
    /\ step = "tick"
    /\ \E i \in Firings(log, PauseKey) :
         i < Len(log) /\ log[i + 1] = <<"set_state", pattern.pipes[s_P].pipeline.id, "Paused">>

\* the parts pushed by the drain of the step whose effects are l
Pushed(l) ==
    LET idx == Tagged(l, "push")
        nth(k) == CHOOSE i \in idx : Cardinality({ j \in idx : j < i }) = k - 1
    IN [k \in 1..Cardinality(idx) |-> l[nth(k)][2]]

\* the moves issued for the part at index i among the effects l
MovesOf(l, i) == { j \in Tagged(l, "move") : l[j][5] = i }

\* C3: a part whose pipe is reported strictly before the part's start gets
\* no move on that tick and stays in the list as it is.
C3_BeforeStart ==
    [][ step' = "tick" =>
          \A i \in 1..Len(moving_parts \o Pushed(log')) :
             LET part == (moving_parts \o Pushed(log'))[i]
                 t == position[part.pipeline.id]
             IN (IsSome(t) /\ t.some < part.start) =>
                  /\ MovesOf(log', i) = {}
                  /\ pc' = "running" =>
                       \E j \in 1..Len(moving_parts') : j <= i /\ moving_parts'[j] = part ]_vars

\* a tick that evaluated a part before its start, and completed
C3_Witness ==
    /\ step = "tick"
    /\ pc = "running"
    /\ \E i \in 1..Len(moving_parts) :
         /\ IsSome(position[moving_parts[i].pipeline.id])
         /\ position[moving_parts[i].pipeline.id].some < moving_parts[i].start
         /\ moving_parts[i].window \in DOMAIN windows

\* the parts a tick evaluates: those in the list and those its drain pushed
Evaluated(l) == moving_parts \o Pushed(l)

\* the report is present and at or after the end of the part
AtOrAfterEnd(t, part) == IsSome(t) /\ t.some >= part.end

\* C4: on a completed tick every part whose pipe is reported at or after the
\* part's end, the end itself included, has its window moved to exactly
\* (end_x, end_y), once, and no such part is left in the list after the tick.
C4_AtOrAfterEnd ==
    [][ (step' = "tick" /\ pc' = "running") =>
          /\ \A i \in 1..Len(Evaluated(log')) :
               AtOrAfterEnd(position[Evaluated(log')[i].pipeline.id], Evaluated(log')[i]) =>
                 \E j \in Tagged(log', "move") :
                    /\ MovesOf(log', i) = {j}
                    /\ log'[j] = <<"move", Evaluated(log')[i].window,
                                   Evaluated(log')[i].end_x, Evaluated(log')[i].end_y, i>>
          /\ \A j \in 1..Len(moving_parts') :
               ~AtOrAfterEnd(position[moving_parts'[j].pipeline.id], moving_parts'[j]) ]_vars

\* the message of the claim, and the message with the pipe as first field
Move8 == Join(<<s_winA, s_move, s_n0, s_n0, s_n0, s_n2, s_n100, s_n100, s_mcos, s_mcos>>)
Move9 == Join(<<s_winA, s_move, s_winA, s_n0, s_n0, s_n0, s_n2, s_n100, s_n100, s_mcos, s_mcos>>)

\* the part both messages are meant to create
WinAPart ==
    [pipeline |-> pattern.pipes[s_winA].pipeline, window |-> s_winA,
     start |-> 0, end |-> 2000000000, start_x |-> 0, end_x |-> 100,
     start_y |-> 0, end_y |-> 100, path_x |-> s_mcos, path_y |-> s_mcos]

\* the places among the effects l where msg was taken from the channel
Drained(l, msg) == { i \in Tagged(l, "recv") : l[i][2] = msg }

\* the effect after place i of l is the push of part
PushedNext(l, i, part) == i < Len(l) /\ l[i + 1][1] = "push" /\ l[i + 1][2] = part

\* winA is a pipe with a window
WinAReady == s_winA \in DOMAIN pattern.pipes /\ s_winA \in DOMAIN windows

LineRead == pc = "parsing" /\ cmd_iter # << >>
NextLine == SplitWhitespace(Head(cmd_iter))

\* the line read is "new T name args.." for a template T of the block table
NewOnTemplate == LineRead /\ IsSome(NamedTemplate(pattern, NextLine))
NewTemplate == pattern.blocks[NextLine[2]]
NewArgs == From(NextLine, 3)

\* the step ended the compilation with a printed error
Reported(l) == Len(l) = 1 /\ l[1][1] = "error"

\* C6: a "new" line whose number of arguments differs from the template's
\* arg_count, by being smaller or greater, ends the compilation with the
\* argument-count error of generate, and the pipe table gets no entry.
C6_ArgCount ==
    [][ (step' = "parse" /\ NewOnTemplate /\ Len(NewArgs) # NewTemplate.arg_count) =>
          /\ pc' = "exit1"
          /\ log' = << <<"error", <<"block.generate", "Incorrect number of arguments">> >> >>
          /\ pattern'.pipes = pattern.pipes
          /\ next_graph' = next_graph ]_vars

\* the compilation ended on a "new" line with too few arguments
C6_Witness ==
    /\ step = "parse"
    /\ pc = "exit1"
    /\ cmd_iter # << >>
    /\ IsSome(NamedTemplate(pattern, NextLine))
    /\ Len(NewArgs) < NewTemplate.arg_count
    /\ log = << <<"error", <<"block.generate", "Incorrect number of arguments">> >> >>
    /\ NextLine[3] \notin DOMAIN pattern.pipes

\* the places <<key, i>> of the "$K" instructions of the template self
RefPlaces(self) ==
    UNION { { <<k, i>> : i \in { j \in 1..Len(self.settings[k]) :
                                   /\ StartsWith(self.settings[k][j][3], s_dollar)
                                   /\ IsDigits(Tail(self.settings[k][j][3])) } }
            : k \in DOMAIN self.settings }

\* the instruction at a place, and the K of its "$K"
RefAt(self, p) == self.settings[p[1]][p[2]]
RefIndex(self, p) == DigitsValue(Tail(RefAt(self, p)[3]))

\* the places whose K is outside 1..n
OutOfRange(self, n) == { p \in RefPlaces(self) : RefIndex(self, p) = 0 \/ RefIndex(self, p) > n }

\* the setting that the instruction at place p exported or applied, in the
\* state after the step that created the pipe `name` as graph g
ResolvedTo(self, p, name, g, v) ==
    IF p[1] = s_raw
    THEN /\ RefAt(self, p)[1] \in DOMAIN pattern'.pipes[name].tags
         /\ IF pattern'.pipes[name].tags[RefAt(self, p)[1]].tag = "Int"
            THEN IsSome(ParseI32(v))
                 /\ pattern'.pipes[name].tags[RefAt(self, p)[1]].v = ParseI32(v).some
            ELSE pattern'.pipes[name].tags[RefAt(self, p)[1]].v = v
    ELSE \E e \in Tagged(log', "set_property") :
            log'[e] = <<"set_property", g, p[1], RefAt(self, p)[1], RefAt(self, p)[2], v>>

\* C7: in a "new" line with N arguments, N the template's arg_count, every
\* "$K" of the template with 1 <= K <= N stands for the K-th argument when
\* the pipe is created, and a "$K" with K = 0 or K > N ends the compilation
\* with a printed error and no pipe.
C7_IndexRange ==
    [][ (step' = "parse" /\ NewOnTemplate /\ Len(NewArgs) = NewTemplate.arg_count) =>
          /\ OutOfRange(NewTemplate, Len(NewArgs)) # {} =>
               /\ pc' = "exit1"
               /\ Reported(log')
               /\ pattern'.pipes = pattern.pipes
          /\ pc' = "parsing" =>
               \A p \in RefPlaces(NewTemplate) \ OutOfRange(NewTemplate, Len(NewArgs)) :
                  ResolvedTo(NewTemplate, p, NextLine[3], next_graph + 1,
                             NewArgs[RefIndex(NewTemplate, p)]) ]_vars

\* the line read is an "on" line whose action list is a wrap block
OpensWrap ==
    /\ LineRead
    /\ Len(NextLine) >= 3
    /\ NextLine[1] = s_on
    /\ \/ NextLine[2] = s_pre /\ NextLine[3] = s_wrap
       \/ /\ NextLine[2] = s_callback
          /\ Len(NextLine) >= 5
          /\ NextLine[3] \in DOMAIN pattern.pipes
          /\ NextLine[4] = s_end
          /\ NextLine[5] = s_wrap
       \/ /\ NextLine[2] = s_progress
          /\ Len(NextLine) >= 5
          /\ NextLine[3] \in DOMAIN pattern.pipes
          /\ IsSome(ParseSecondsToNanos(NextLine[4]))
          /\ NextLine[5] = s_wrap

\* no line after the one read closes a wrap block
NoSentinel ==
    \A i \in 2..Len(cmd_iter) :
       SplitWhitespace(cmd_iter[i]) = << >> \/ SplitWhitespace(cmd_iter[i])[1] # s_parw

\* C8: a wrap block opened with no closing line left in the script ends the
\* compilation with a printed error: the process neither crashes nor goes
\* on with an action list.
C8_WrapExhausted ==
    [][ (step' = "parse" /\ OpensWrap /\ NoSentinel) =>
          /\ pc' = "exit1"
          /\ Reported(log')
          /\ pattern' = pattern ]_vars

\* the text " terminate"
TermMsg == <<" ", "t", "e", "r", "m", "i", "n", "a", "t", "e">>

\* the action that parse_leading_event compiles from a "terminate" event
TermAction == [kind |-> "window", window |-> << >>, action |-> s_terminate, settings |-> << >>]

\* the messages sent by the step whose effects are l, in order
Sent(l) ==
    LET idx == Tagged(l, "send")
        nth(k) == CHOOSE i \in idx : Cardinality({ j \in idx : j < i }) = k - 1
    IN [k \in 1..Cardinality(idx) |-> l[nth(k)][2]]

RECURSIVE WatchedEvents(_, _)
\* the actions of the end-of-stream callbacks connected to graph g, in order
WatchedEvents(watches, g) ==
    IF watches = << >> THEN << >>
    ELSE (IF Head(watches).pipe.id = g THEN Head(watches).events ELSE << >>)
         \o WatchedEvents(Tail(watches), g)

\* the window actions among the actions evs
WindowEvents(evs) == SelectSeq(evs, LAMBDA e : e.kind = "window")

\* the messages msgs are those of the window actions acts, one each, and
\* the message of every terminate action is " terminate"
SentFor(msgs, acts) ==
    /\ Len(msgs) = Len(acts)
    /\ \A i \in 1..Len(acts) : acts[i] = TermAction => msgs[i] = TermMsg

\* C9: the callbacks of a graph that ran to their end sent one message per
\* window action, " terminate" for the action of a terminate event; a tick
\* that drains " terminate" ends the process with exit code 0 at that very
\* message: the messages behind it stay in the channel, no time event fires,
\* no window moves and no part is retired; and no step follows the exit.
C9_Terminate ==
    [][ /\ (step' = "eos" /\ pc' = "running") =>
             \E g \in 1..next_graph :
                SentFor(Sent(log'), WindowEvents(WatchedEvents(bus, g)))
        /\ step' = "tick" =>
             \A i \in Drained(log', TermMsg) :
                /\ i = Len(log')
                /\ pc' = "exit0"
                /\ Cardinality(Tagged(log', "recv")) <= Len(chan)
                /\ chan' = SubSeq(chan, Cardinality(Tagged(log', "recv")) + 1, Len(chan))
                /\ nano_map' = nano_map
                /\ moving_parts' = Evaluated(log')
        /\ pc # "exit0" ]_vars

\* the process has exited on " terminate" with a message queued behind it
C9_Witness ==
    /\ step = "tick"
    /\ pc = "exit0"
    /\ Drained(log, TermMsg) # {}
    /\ chan # << >>
    /\ \E i \in 1..Len(bus) : TermAction \in { bus[i].events[j] : j \in 1..Len(bus[i].events) }

\* C10: in every interleaving of end-of-stream callbacks with ticks, a
\* callback leaves the window table, the list of parts and the fired set as
\* they are and only appends to the channel, one message per window action
\* it executed; once the tick handler is registered no step but a tick
\* changes those three.
C10_CallbacksOnlySend ==
    [][ /\ step' = "eos" =>
             /\ chan' = chan \o Sent(log')
             /\ pc' = "running" =>
                  \E g \in 1..next_graph :
                     Len(Sent(log')) = Len(WindowEvents(WatchedEvents(bus, g)))
        /\ (pc = "running" /\ step' # "tick") =>
             /\ windows' = windows
             /\ moving_parts' = moving_parts
             /\ nano_map' = nano_map ]_vars

\* a callback of a window's graph has run between two ticks and sent its
\* message, with the window still hidden
C10_Witness ==
    /\ step = "eos"
    /\ pc = "running"
    /\ Tagged(log, "send") # {}
    /\ \E w \in DOMAIN windows :
         /\ ~windows[w].shown
         /\ \E i \in 1..Len(chan) : chan[i] = w \o <<" ", "s", "h", "o", "w">>

\* the message msg fails in the dispatch: its verb is neither show nor move,
\* or it shows a window that the table lacks, or it moves by a pipe that the
\* pipe table lacks
FailsDispatch(msg) ==
    /\ msg # TermMsg
    /\ msg # <<"p", "r", "e">>
    /\ Len(SplitWhitespace(msg)) >= 2
    /\ \/ SplitWhitespace(msg)[2] \notin {s_show, s_move}
       \/ /\ SplitWhitespace(msg)[2] = s_show
          /\ SplitWhitespace(msg)[1] \notin DOMAIN windows
       \/ /\ SplitWhitespace(msg)[2] = s_move
          /\ Len(SplitWhitespace(msg)) >= 3
          /\ SplitWhitespace(msg)[3] \notin DOMAIN pattern.pipes

\* the time event k is due: not fired yet and its pipe reported above it
Due(k) ==
    /\ k \notin nano_map
    /\ k[1] \in DOMAIN pattern.pipes
    /\ IsSome(ReportFor(k[1]))
    /\ ReportFor(k[1]).some > k[2]

\* the part is inside its interval by the report of its pipe
InInterval(part) ==
    /\ IsSome(position[part.pipeline.id])
    /\ position[part.pipeline.id].some >= part.start
    /\ position[part.pipeline.id].some <= part.end

\* C11: a drained message that fails in the dispatch is reported and has no
\* other effect; the drain goes on to the messages behind it, and the time
\* events and the animation of the same tick run after it.
C11_DispatchFailure ==
    [][ step' = "tick" =>
          \A i \in Tagged(log', "recv") : FailsDispatch(log'[i][2]) =>
             /\ i < Len(log')
             /\ log'[i + 1][1] = "error"
             /\ (i + 2 <= Len(log') => log'[i + 2][1] \in {"recv", "fire", "move"})
             /\ pc' = "running" =>
                  /\ Cardinality(Tagged(log', "recv")) = Len(chan)
                  /\ windows' = [w \in DOMAIN windows |->
                                   IF \E j \in Tagged(log', "show_all") : log'[j][2] = w
                                   THEN [windows'[w] EXCEPT !.shown = TRUE]
                                   ELSE [windows'[w] EXCEPT !.shown = windows[w].shown]]
                  /\ \A k \in DOMAIN pattern.time_events :
                       Due(k) => \E j \in Firings(log', k) : j > i
                  /\ \A p \in 1..Len(Evaluated(log')) :
                       InInterval(Evaluated(log')[p]) => \E j \in MovesOf(log', p) : j > i ]_vars

\* a completed tick that reported three failures, dispatched the commands
\* between and behind them, fired a time event and moved a window
C11_Witness ==
    /\ step = "tick"
    /\ pc = "running"
    /\ Cardinality(Tagged(log, "error")) = 3
    /\ \E i \in Tagged(log, "error"), j \in Tagged(log, "show_all"), k \in Tagged(log, "push") :
         i < j /\ j < k
    /\ Tagged(log, "fire") # {}
    /\ Tagged(log, "move") # {}

\* the state words of the play action and the state each one asks for
StateWords == {s_start, s_pause, s_ready, s_stop}
StateOf(w) ==
    CASE w = s_start -> "Playing"
      [] w = s_pause -> "Paused"
      [] w = s_ready -> "Ready"
      [] w = s_stop -> "Null"

\* the action at place j of the list evs is reached: no play action before
\* it has a word outside the state words, and no property action is before it
Reached(evs, j) ==
    \A h \in 1..(j - 1) :
       /\ evs[h].kind # "prop"
       /\ evs[h].kind = "play" => evs[h].action \in StateWords

\* the list evs, executed by the step whose effects l hold those of the list
\* from place off + 1 on, treats its play actions as stated: a state word
\* gives the state change on the pipe of the action, any other word ends the
\* process there
PlaysAsStated(evs, l, off, after) ==
    \A j \in 1..Len(evs) :
       (evs[j].kind = "play" /\ Reached(evs, j)) =>
          IF evs[j].action \in StateWords
          THEN /\ Len(l) >= off + j
               /\ l[off + j] = <<"set_state", evs[j].pipeline.id, StateOf(evs[j].action)>>
          ELSE /\ after = "panicked"
               /\ Len(l) = off + j - 1

\* C12: a play action with the state word start, pause, ready or stop issues
\* the state change to playing, paused, ready or stopped on its pipe, and a
\* play action with any other word is fatal; stated for the lists run at
\* startup and by the time events.
C12_PlayStates ==
    [][ /\ (step' = "setup" /\ SinksFound(pattern)) =>
             PlaysAsStated(pattern.pre_events, log', 0, pc')
        /\ step' = "tick" =>
             \A k \in DOMAIN pattern.time_events :
                \A i \in Firings(log', k) :
                   PlaysAsStated(pattern.time_events[k], log', i, pc') ]_vars

\* the effect e is the one of the action a
EffectMatches(e, a) ==
    CASE a.kind = "window" -> e = <<"send", Join(<<a.window, a.action>> \o a.settings)>>
      [] a.kind = "play" ->
           /\ e[1] = "set_state"
           /\ e[2] = a.pipeline.id
           /\ a.action \in {s_start, s_pause, s_ready} => e[3] = StateOf(a.action)
      [] a.kind = "seek" -> e[1] = "seek" /\ e[2] = a.pipeline.id
      [] a.kind = "prop" -> e[1] = "set_property" /\ e[2] = a.pipeline.id

\* the effects l hold, from place off + 1 on, those of the list evs in order
RunsInOrder(evs, l, off) ==
    /\ Len(l) >= off + Len(evs)
    /\ \A j \in 1..Len(evs) : EffectMatches(l[off + j], evs[j])

\* the effect at place i of l, if there is one, is not that of an action
NoActionAt(l, i) == i <= Len(l) => l[i][1] \in {"recv", "fire", "move", "error", "show_all", "push"}

\* C13: the startup runs the pre-events once, in the order of the script,
\* before the tick handler exists; a completed tick runs the whole list once
\* more, in the same order, for each "pre" it drains, and for no other
\* message it drains.
C13_PreEvents ==
    [][ /\ step' = "setup" => pc = "parsing"
        /\ step' = "tick" => pc = "running"
        /\ (step' = "setup" /\ pc' = "running") =>
             /\ Len(log') = Len(pattern.pre_events)
             /\ RunsInOrder(pattern.pre_events, log', 0)
        /\ (step' = "tick" /\ pc' = "running") =>
             \A i \in Tagged(log', "recv") :
                IF log'[i][2] = <<"p", "r", "e">>
                THEN /\ RunsInOrder(pattern.pre_events, log', i)
                     /\ NoActionAt(log', i + Len(pattern.pre_events) + 1)
                ELSE NoActionAt(log', i + 1) ]_vars

\* a completed tick that drained "pre" and ran a list of two or more
\* pre-events after it
C13_Witness ==
    /\ step = "tick"
    /\ pc = "running"
    /\ Len(pattern.pre_events) >= 2
    /\ \E i \in Drained(log, <<"p", "r", "e">>) :
         /\ RunsInOrder(pattern.pre_events, log, i)
         /\ log[i + 1] # log[i + 2]

\* the fields args, at place n, read "act X .." with X not a pipe
ActsOnUnknown(args, n) ==
    /\ Len(args) >= n + 1
    /\ args[n] = s_act
    /\ args[n + 1] \notin DOMAIN pattern.pipes

\* the line read names a pipe that no "new" line before it created: in a
\* plug, in the pipe of an "on callback" or "on progress", in the action of
\* an "on" line, or in the first action of a wrap block
NamesUnknownPipe ==
    /\ LineRead
    /\ \/ /\ NextLine[1] = s_plug
          /\ Len(NextLine) >= 5
          /\ (NextLine[3] \notin DOMAIN pattern.pipes \/ NextLine[5] \notin DOMAIN pattern.pipes)
       \/ /\ NextLine[1] = s_on
          /\ Len(NextLine) >= 3
          /\ \/ /\ NextLine[2] \in {s_callback, s_progress}
                /\ NextLine[3] \notin DOMAIN pattern.pipes
             \/ NextLine[2] = s_pre /\ ActsOnUnknown(NextLine, 3)
             \/ /\ NextLine[2] = s_callback
                /\ Len(NextLine) >= 4
                /\ NextLine[4] = s_end
                /\ ActsOnUnknown(NextLine, 5)
             \/ /\ NextLine[2] = s_progress
                /\ Len(NextLine) >= 4
                /\ IsSome(ParseSecondsToNanos(NextLine[4]))
                /\ ActsOnUnknown(NextLine, 5)
             \/ /\ OpensWrap
                /\ Len(cmd_iter) >= 2
                /\ ActsOnUnknown(SplitWhitespace(cmd_iter[2]), 1)

\* C14: a line that names a pipe which no earlier "new" line created ends
\* the compilation with a printed error; hence in the running program the
\* pipe of every time event is in the pipe table.
C14_PipesExist ==
    [][ /\ (step' = "parse" /\ NamesUnknownPipe) =>
             /\ pc' = "exit1"
             /\ Reported(log')
             /\ pattern' = pattern
        /\ pc' = "running" =>
             \A k \in DOMAIN pattern'.time_events : k[1] \in DOMAIN pattern'.pipes ]_vars

\* the compilation ended on the "on progress" line of a pipe never created
C14_Witness ==
    /\ step = "parse"
    /\ pc = "exit1"
    /\ Reported(log)
    /\ cmd_iter # << >>
    /\ Len(NextLine) >= 3
    /\ NextLine[1] = s_on
    /\ NextLine[2] = s_progress
    /\ NextLine[3] \notin DOMAIN pattern.pipes
    /\ DOMAIN pattern.time_events = {}

\* C15: a step of the compilation that reports an error ends the process
\* with exit code 1 at the failing line; no pre-event has run, no window
\* exists, and nothing follows: no setup and no tick.
C15_ParseErrorAborts ==
    [][ /\ (step' \in {"read", "parse"} /\ Reported(log')) => pc' = "exit1"
        /\ pc' = "exit1" =>
             /\ step' \in {"read", "parse"}
             /\ Reported(log')
             /\ cmd_iter' = cmd_iter
             /\ pattern' = pattern
             /\ windows' = << >>
             /\ chan' = << >>
             /\ moving_parts' = << >>
             /\ nano_map' = {}
        /\ pc # "exit1" ]_vars

\* the compilation failed behind a pre-event on a pipe that asks for a window
C15_Witness ==
    /\ pc = "exit1"
    /\ step = "parse"
    /\ pattern.pre_events # << >>
    /\ \E n \in DOMAIN pattern.pipes : IsWindowTag(pattern.pipes[n].tags)
    /\ windows = << >>
    /\ chan = << >>

\* the line read is "on callback P end .." for a pipe P of the pipe table
CallbackLine ==
    /\ LineRead
    /\ Len(NextLine) >= 4
    /\ NextLine[1] = s_on
    /\ NextLine[2] = s_callback
    /\ NextLine[3] \in DOMAIN pattern.pipes
    /\ NextLine[4] = s_end

\* C16: an "on callback P end" line that compiles connects one list to the
\* graph of P and to no other; a notification of the end of a graph's stream
\* that runs to its end executes each list connected to that graph once, in
\* the order of the list, the lists in the order of their lines, and no list
\* connected to another graph.
C16_CallbackLists ==
    [][ /\ (step' = "parse" /\ CallbackLine /\ pc' = "parsing") =>
             /\ Len(bus') = Len(bus) + 1
             /\ SubSeq(bus', 1, Len(bus)) = bus
             /\ bus'[Len(bus')].pipe = pattern.pipes[NextLine[3]].pipeline
        /\ (step' = "parse" /\ ~CallbackLine) => bus' = bus
        /\ step' # "parse" => bus' = bus
        /\ step' = "eos" =>
             /\ Len(log') >= 1
             /\ log'[1][1] = "eos"
             /\ pc' = "running" =>
                  /\ Len(log') = 1 + Len(WatchedEvents(bus, log'[1][2]))
                  /\ RunsInOrder(WatchedEvents(bus, log'[1][2]), log', 1) ]_vars

\* the end of the stream of a graph with two lists, three actions in all,
\* was notified while another graph has a list of its own
C16_Witness ==
    /\ step = "eos"
    /\ pc = "running"
    /\ Len(log) = 4
    /\ Len(WatchedEvents(bus, log[1][2])) = 3
    /\ RunsInOrder(WatchedEvents(bus, log[1][2]), log, 1)
    /\ \E i \in 1..Len(bus) : bus[i].pipe.id # log[1][2] /\ bus[i].events # << >>

\* the effects of actions
ActionTags == {"send", "set_state", "seek", "set_property"}

\* C17: a pair enters the fired set, and its list is started, only by a tick
\* in which the pipe's position was reported strictly above the threshold; a
\* tick to which the position is not reported, or reported at or below the
\* threshold, leaves the pair unfired and runs no action, and a later
\* completed tick that finds the position above the threshold fires it.
C17_StrictCrossing ==
    [][ /\ \A k \in DOMAIN fire_count' :
             /\ (Firings(log', k) # {} \/ (k \in nano_map' /\ k \notin nano_map)) =>
                  /\ step' = "tick"
                  /\ IsSome(ReportFor(k[1]))
                  /\ ReportFor(k[1]).some > k[2]
                  /\ Firings(log', k) # {}
                  /\ k \in nano_map'
             /\ (step' = "tick" /\ pc' = "running" /\ Due(k)) => Firings(log', k) # {}
        /\ step' = "tick" =>
             \A i \in 1..Len(log') :
                log'[i][1] \in ActionTags => \E j \in Tagged(log', "fire") : j < i ]_vars

\* a completed tick that found an unfired pair with the position exactly at
\* its threshold, and did nothing
C17_Witness ==
    /\ step = "tick"
    /\ pc = "running"
    /\ log = << >>
    /\ \E k \in DOMAIN fire_count :
         /\ k \notin nano_map
         /\ IsSome(ReportFor(k[1]))
         /\ ReportFor(k[1]).some = k[2]

\* the line read is "on progress P t .." for a pipe P of the pipe table
ProgressLine ==
    /\ LineRead
    /\ Len(NextLine) >= 5
    /\ NextLine[1] = s_on
    /\ NextLine[2] = s_progress
    /\ NextLine[3] \in DOMAIN pattern.pipes

\* the number of actions that the line read puts in its list: those of its
\* wrap block, or the one it holds
ActionsOfLine ==
    IF OpensWrap /\ ~NoSentinel
    THEN (CHOOSE i \in 2..Len(cmd_iter) :
            /\ SplitWhitespace(cmd_iter[i])[1] = s_parw
            /\ \A h \in 2..(i - 1) : SplitWhitespace(cmd_iter[h])[1] # s_parw) - 2
    ELSE 1

\* the list that the time events te hold for the key k, empty for a new key
ListOf(te, k) == IF k \in DOMAIN te THEN te[k] ELSE << >>

\* C18: an "on progress" line that compiles puts its actions behind those
\* that earlier lines put under the same (pipe, nanoseconds) key and leaves
\* every other key alone; a tick that fires a key and does not end the
\* process executes the whole list of the key in that order, each action
\* once, before it does anything else.
C18_MergedLists ==
    [][ /\ (step' = "parse" /\ ProgressLine /\ pc' = "parsing") =>
             /\ DOMAIN pattern.time_events \subseteq DOMAIN pattern'.time_events
             /\ \E k \in DOMAIN pattern'.time_events :
                  /\ k[1] = NextLine[3]
                  /\ \A o \in DOMAIN pattern'.time_events \ {k} :
                       /\ o \in DOMAIN pattern.time_events
                       /\ pattern'.time_events[o] = pattern.time_events[o]
                  /\ Len(pattern'.time_events[k]) =
                       Len(ListOf(pattern.time_events, k)) + ActionsOfLine
                  /\ SubSeq(pattern'.time_events[k], 1, Len(ListOf(pattern.time_events, k)))
                       = ListOf(pattern.time_events, k)
        /\ (step' = "parse" /\ ~ProgressLine) => pattern'.time_events = pattern.time_events
        /\ step' # "parse" => pattern'.time_events = pattern.time_events
        /\ (step' = "tick" /\ pc' # "panicked") =>
             \A k \in DOMAIN pattern.time_events :
                /\ Cardinality(Firings(log', k)) <= 1
                /\ \A i \in Firings(log', k) :
                     /\ RunsInOrder(pattern.time_events[k], log', i)
                     /\ NoActionAt(log', i + Len(pattern.time_events[k]) + 1) ]_vars

\* a completed tick that fired the key of three lines, four actions in all
C18_Witness ==
    /\ step = "tick"
    /\ pc = "running"
    /\ \E k \in DOMAIN pattern.time_events :
         /\ Len(pattern.time_events[k]) = 4
         /\ \E i \in Firings(log, k) :
              /\ log[i + 1] = <<"set_state", pattern.pipes[k[1]].pipeline.id, "Ready">>
              /\ log[i + 2] = <<"set_state", pattern.pipes[k[1]].pipeline.id, "Paused">>
              /\ log[i + 3] = <<"set_state", pattern.pipes[k[1]].pipeline.id, "Playing">>
              /\ log[i + 4][1] = "seek"

\* the messages received by the step whose effects are l, in order
Dispatched(l) ==
    LET idx == Tagged(l, "recv")
        nth(k) == CHOOSE i \in idx : Cardinality({ j \in idx : j < i }) = k - 1
    IN [k \in 1..Cardinality(idx) |-> l[nth(k)][2]]

\* C19: the channel is a queue. A producer (the pre-events at startup, an
\* end-of-stream callback, a replay request) puts its messages behind
\* those waiting; a tick receives a front part of the queue, every message
\* once and in the order of its sending, and what it leaves is what was
\* sent and not received; a tick that does not end the process receives at
\* least every message that waited when it began. No other step touches
\* the channel.
C19_ChannelFifo ==
    [][ /\ step' \in {"setup", "eos"} =>
             /\ chan' = chan \o Sent(log')
             /\ Tagged(log', "recv") = {}
        /\ step' = "enqueue" => Len(chan') = Len(chan) + 1 /\ SubSeq(chan', 1, Len(chan)) = chan
        /\ step' = "tick" =>
             /\ chan \o Sent(log') = Dispatched(log') \o chan'
             /\ pc' = "running" => Len(Dispatched(log')) >= Len(chan)
        /\ step' \notin {"setup", "eos", "enqueue", "tick"} => chan' = chan ]_vars

\* a completed tick that received several different messages, among them
\* one sent during its own drain, and left the message of a time event
C19_Witness ==
    /\ step = "tick"
    /\ pc = "running"
    /\ Cardinality({ log[i][2] : i \in Tagged(log, "recv") }) >= 2
    /\ \E i \in Tagged(log, "recv"), j \in Tagged(log, "send"), h \in Tagged(log, "recv") :
          i < j /\ j < h /\ log[h][2] = log[j][2]
    /\ chan # << >>
    /\ \E f \in Tagged(log, "fire"), j \in Tagged(log, "send") : f < j /\ log[j][2] = chan[1]

\* the sends of the effects l that come behind a firing
SentByTimeEvents(l) == { j \in Tagged(l, "send") : \E f \in Tagged(l, "fire") : f < j }

\* the report for the pipe of the part is at or after the part's start
Started(part) ==
    /\ IsSome(position[part.pipeline.id])
    /\ position[part.pipeline.id].some >= part.start

\* C20: in a tick every receipt comes before every firing and every firing
\* before every move, and a waiting message is received first of all; on a
\* tick that does not end the process a part pushed by the drain whose pipe
\* is reported at or after its start is moved by the same tick, and the
\* messages sent by the time events are not received by it: they are what
\* the channel holds afterwards.
C20_TickOrder ==
    [][ step' = "tick" =>
          /\ \A r \in Tagged(log', "recv"), f \in Tagged(log', "fire") : r < f
          /\ \A f \in Tagged(log', "fire"), m \in Tagged(log', "move") : f < m
          /\ \A r \in Tagged(log', "recv") \cup Tagged(log', "push"),
                m \in Tagged(log', "move") : r < m
          /\ chan # << >> => log'[1] = <<"recv", chan[1]>>
          /\ pc' = "running" =>
               /\ \A p \in (Len(moving_parts) + 1)..Len(Evaluated(log')) :
                    Started(Evaluated(log')[p]) => MovesOf(log', p) # {}
               /\ Len(chan') = Cardinality(SentByTimeEvents(log'))
               /\ \A j \in SentByTimeEvents(log') :
                    /\ \E c \in 1..Len(chan') : chan'[c] = log'[j][2]
                    /\ \A r \in Tagged(log', "recv") : r < j ]_vars

\* a completed tick that drained a move command and moved its window, and
\* fired a time event whose message waits in the channel
C20_Witness ==
    /\ step = "tick"
    /\ pc = "running"
    /\ \E u \in Tagged(log, "push"), f \in Tagged(log, "fire"), m \in Tagged(log, "move") :
         /\ u < f
         /\ f < m
         /\ f < Len(log)
         /\ log[f + 1][1] = "send"
         /\ chan = << log[f + 1][2] >>
         /\ log[m][2] = log[u][2].window

\* the message msg is a move command for a pipe of the pipe table that
\* lacks one of its nine fields or has a time or a coordinate that is no
\* number
MalformedMove(msg) ==
    /\ Len(SplitWhitespace(msg)) >= 3
    /\ SplitWhitespace(msg)[2] = s_move
    /\ SplitWhitespace(msg)[3] \in DOMAIN pattern.pipes
    /\ ~MoveFieldsOk(From(SplitWhitespace(msg), 2))

\* C21: a tick that receives a malformed move command reports it, pushes
\* no part for it, and does not end the process; every message that waited
\* is received by the same tick.
C21_MalformedMove ==
    [][ step' = "tick" =>
          \A i \in Tagged(log', "recv") : MalformedMove(log'[i][2]) =>
             /\ i < Len(log')
             /\ log'[i + 1][1] = "error"
             /\ pc' = "running"
             /\ Cardinality(Tagged(log', "recv")) = Len(chan) ]_vars

\* the compiled actions: those of the pre-events, of the time events and of
\* the end-of-stream callbacks
CompiledActions ==
    { pattern.pre_events[i] : i \in 1..Len(pattern.pre_events) }
      \cup UNION { { pattern.time_events[k][i] : i \in 1..Len(pattern.time_events[k]) } :
                   k \in DOMAIN pattern.time_events }
      \cup UNION { { bus[w].events[i] : i \in 1..Len(bus[w].events) } : w \in 1..Len(bus) }

\* the graph handles held outside the pipe table: by the actions on a pipe
\* and by the end-of-stream callbacks
HeldHandles ==
    { a.pipeline : a \in { c \in CompiledActions : c.kind # "window" } }
      \cup { bus[w].pipe : w \in 1..Len(bus) }

\* C22: every graph handle held by a compiled action or a callback is the
\* graph that the pipe table holds under the handle's name.
C22_SameGraph ==
    \A h \in HeldHandles :
       /\ h.name \in DOMAIN pattern.pipes
       /\ pattern.pipes[h.name].pipeline.id = h.id

\* the indices of the parts that the animation pass of a tick marks for
\* retirement: those whose pipe is reported after the part's end
Marked(l) ==
    { i \in 1..Len(Evaluated(l)) :
        /\ IsSome(position[Evaluated(l)[i].pipeline.id])
        /\ position[Evaluated(l)[i].pipeline.id].some > Evaluated(l)[i].end }

\* the sequence v without the elements at the indices of the set out
Without(v, out) ==
    LET idx == (1..Len(v)) \ out
        nth(k) == CHOOSE i \in idx : Cardinality({ j \in idx : j < i }) = k - 1
    IN [k \in 1..Cardinality(idx) |-> v[nth(k)]]

\* C23: after a tick that does not end the process the list holds the
\* parts it evaluated except those marked for retirement, in their order.
C23_Retirement ==
    [][ (step' = "tick" /\ pc' = "running") =>
          moving_parts' = Without(Evaluated(log'), Marked(log')) ]_vars

\* a completed tick that moved and retired the first and the third part of
\* the list and kept the second one, which is not past its end
C23_Witness ==
    /\ step = "tick"
    /\ pc = "running"
    /\ Len(moving_parts) = 1
    /\ ~ ( /\ IsSome(position[moving_parts[1].pipeline.id])
           /\ position[moving_parts[1].pipeline.id].some > moving_parts[1].end )
    /\ { log[m][5] : m \in Tagged(log, "move") } = {1, 3}
    /\ \A m \in Tagged(log, "move") : windows[log[m][2]].x = log[m][3]

\* no position is reported for the pipe of the part
Unavailable(part) == ~IsSome(position[part.pipeline.id])

\* C24: on a tick a part whose pipe reports no position gets no move and,
\* when the process goes on, stays in the list as it is, whatever its
\* times; the parts before and behind it whose pipe is reported at or
\* after their start are moved by the same tick.
C24_Unavailable ==
    [][ step' = "tick" =>
          \A i \in 1..Len(Evaluated(log')) :
             Unavailable(Evaluated(log')[i]) =>
               /\ MovesOf(log', i) = {}
               /\ pc' = "running" =>
                    /\ \E j \in 1..Len(moving_parts') :
                         j <= i /\ moving_parts'[j] = Evaluated(log')[i]
                    /\ \A p \in 1..Len(Evaluated(log')) :
                         Started(Evaluated(log')[p]) => MovesOf(log', p) # {} ]_vars

\* a completed tick with two parts in the list: the first without a
\* position for its pipe and not moved, the second moved
C24_Witness ==
    /\ step = "tick"
    /\ pc = "running"
    /\ Len(moving_parts) = 2
    /\ Unavailable(moving_parts[1])
    /\ ~Unavailable(moving_parts[2])
    /\ { log[m][5] : m \in Tagged(log, "move") } = {2}

\* C25: a move issued for a part whose pipe is reported inside the part's
\* interval puts an axis whose curve is not mcos at the end coordinate of
\* that axis, whatever the report inside the interval and whatever the
\* curve of the other axis; on a tick that does not end the process such a
\* move is issued.
C25_FullDelta ==
    [][ step' = "tick" =>
          \A p \in 1..Len(Evaluated(log')) :
             InInterval(Evaluated(log')[p]) =>
               /\ pc' = "running" => MovesOf(log', p) # {}
               /\ \A j \in MovesOf(log', p) :
                    /\ log'[j][2] = Evaluated(log')[p].window
                    /\ Evaluated(log')[p].path_x # s_mcos =>
                         log'[j][3] = Evaluated(log')[p].end_x
                    /\ Evaluated(log')[p].path_y # s_mcos =>
                         log'[j][4] = Evaluated(log')[p].end_y ]_vars

\* a completed tick that moved a part reported strictly inside its
\* interval, with the mcos axis between its start and its end and the
\* other axis at its end
C25_Witness ==
    /\ step = "tick"
    /\ pc = "running"
    /\ \E i \in 1..Len(moving_parts), m \in Tagged(log, "move") :
         /\ moving_parts[i].path_x = s_mcos
         /\ moving_parts[i].path_y = s_lin
         /\ IsSome(position[moving_parts[i].pipeline.id])
         /\ position[moving_parts[i].pipeline.id].some > moving_parts[i].start
         /\ position[moving_parts[i].pipeline.id].some < moving_parts[i].end
         /\ log[m][2] = moving_parts[i].window
         /\ log[m][3] > moving_parts[i].start_x
         /\ log[m][3] < moving_parts[i].end_x
         /\ log[m][4] = moving_parts[i].end_y
         /\ moving_parts[i].end_y # moving_parts[i].start_y

\* the moves of the window w among the effects l
MovesTo(l, w) == { j \in Tagged(l, "move") : l[j][2] = w }

\* C26: the moves of a tick are issued in the order of the list, one per
\* part at most; after the tick a window that was moved is where the last
\* of its moves put it, and a window that was not moved is where it was.
C26_LastMoveWins ==
    [][ step' = "tick" =>
          /\ \A j, h \in Tagged(log', "move") : j < h => log'[j][5] < log'[h][5]
          /\ \A w \in DOMAIN windows :
               IF MovesTo(log', w) = {}
               THEN windows'[w].x = windows[w].x /\ windows'[w].y = windows[w].y
               ELSE \E j \in MovesTo(log', w) :
                      /\ \A h \in MovesTo(log', w) : h <= j
                      /\ windows'[w].x = log'[j][3]
                      /\ windows'[w].y = log'[j][4] ]_vars

\* a completed tick in which two parts moved one window to different
\* places, the window being where the second one put it
C26_Witness ==
    /\ step = "tick"
    /\ pc = "running"
    /\ \E j, h \in Tagged(log, "move") :
         /\ j < h
         /\ log[j][2] = log[h][2]
         /\ log[j][3] # log[h][3]
         /\ log[j][4] # log[h][4]
         /\ windows[log[h][2]].x = log[h][3]
         /\ windows[log[h][2]].y = log[h][4]

\* C27: every part of the list names a window of the window table.
C27_WindowsExist ==
    \A i \in 1..Len(moving_parts) : moving_parts[i].window \in DOMAIN windows

\* a tick ended the process in the animation pass: nothing was received
\* and nothing fired, and a part of the list names no window of the table
\* while its pipe reports a position
LookupCrash ==
    /\ step = "tick"
    /\ pc = "panicked"
    /\ log = << >>
    /\ \E i \in 1..Len(moving_parts) :
         /\ moving_parts[i].window \notin DOMAIN windows
         /\ IsSome(position[moving_parts[i].pipeline.id])

\* the number of places of the sequence v that hold x
Count(v, x) == Cardinality({ i \in 1..Len(v) : v[i] = x })

\* C28: every message that an action sends holds a space, so it is not the
\* replay request "pre"; a tick replays the pre-events once for each
\* request that waited when it began and for no other message, and it
\* receives no more than the waiting messages and, for each request, the
\* messages of the window actions of the pre-events.
C28_DrainBounded ==
    [][ /\ \A j \in Tagged(log', "send") :
             /\ \E c \in 1..Len(log'[j][2]) : log'[j][2][c] = SP
             /\ log'[j][2] # s_pre
        /\ step' = "tick" =>
             /\ Cardinality(Drained(log', s_pre)) <= Count(chan, s_pre)
             /\ Cardinality(Tagged(log', "recv")) <=
                  Len(chan) + Count(chan, s_pre) * Len(WindowEvents(pattern.pre_events))
             /\ \A j \in Tagged(log', "send") :
                  (\E r \in Tagged(log', "recv") : j < r) =>
                     \E i \in Drained(log', s_pre) : i < j ]_vars

\* a completed tick that received a replay request, then every message
\* that the replay sent, and left the channel empty
C28_Witness ==
    /\ step = "tick"
    /\ pc = "running"
    /\ chan = << >>
    /\ \E i \in Drained(log, s_pre) :
         /\ Cardinality({ j \in Tagged(log, "send") : j > i }) >= 2
         /\ \A j \in Tagged(log, "send") :
              j > i /\ \E r \in Drained(log, log[j][2]) : r > j

====
